---- MODULE Spec2Model ----
(***************************************************************************)
(* A model of the ftm-lakehouse storage engine: the tag store and its      *)
(* freshness check, the statement journal, the parquet statement store,    *)
(* EntityRepository.bulk / flush, the version store, the dependency gated  *)
(* export operations (DatasetJobOperation.run, make), the diff exporter    *)
(* (ParquetDiffMixin.export_diff), the blob archive and the crawl.         *)
(*                                                                         *)
(* Time is a logical clock: every read of the wall clock (datetime.now())  *)
(* returns a value strictly larger than every earlier read.  A tag value   *)
(* of None (0) is an unset tag.                                            *)
(***************************************************************************)
EXTENDS Integers, Sequences, FiniteSets, TLC

VARIABLES
    clock,      \* last value returned by datetime.now()
    tags,       \* TagStore: tag key -> timestamp, None when unset
    journal,    \* JournalStore table `statements`: set of rows, unique by id
    txn,        \* number of journal writer batches committed or rolled back so far
    store,      \* ParquetStore: rows of the delta table
    sver,       \* ParquetStore: number of commits in the transaction log
    fl,         \* the EntityRepository.flush() call in progress (its local variables)
    files,      \* dataset object store: export path -> modification time, None when absent
    versions,   \* dataset object store: snapshots under versions/, as <<path, ts>>
    last,       \* the call made by the last step (what it was asked, what came of it)
    q,          \* an is_latest query: [key, deps]
    res,        \* the answers to q of the two is_latest implementations
    df,         \* the diff exporter: delta log, exported files, diff state, diff files
    ar,         \* the blob archive: blobs, metadata records, archive tag, source files
    lk,         \* destructive operations run by concurrent processes, and the .LOCK object
    vs,         \* the version store: snapshots, current copies, tags of the versioned paths
    rc,         \* the recreate operation: store, export files and their contents, tags
    mp,         \* DocumentRepository.make_paths: the folders, the walk in progress, the paths
    rt,         \* the entity round trip: journal, store, entities.ftm.json, what stream() read
    au,         \* TokenData.allows: the token, the request and the answer
    gc          \* a running ParquetStore.get_changes generator

vars == <<clock, tags, journal, txn, store, sver, fl, files, versions, last, q, res, df, ar, lk, vs, rc, mp, rt, au, gc>>

\* what the diff exporter leaves alone
NotDiff == <<clock, tags, journal, txn, store, sver, fl, files, versions, last, q, res, ar, lk, vs, rc, mp, rt, au, gc>>

\* what the archive leaves alone
NotArchive == <<clock, tags, journal, txn, store, sver, fl, files, versions, last, q, res, df, lk, vs, rc, mp, rt, au, gc>>

----------------------------------------------------------------------------
(* Bounds of the model *)

\* no flush is started once the clock has reached MaxClock
MaxClock == 5
\* timestamps 1..MaxTs are drawn for the tags of an is_latest query
MaxTs == 3
\* journal writer batches in a behaviour
MaxTxn == 2

----------------------------------------------------------------------------
(* Tag keys and paths (core/conventions/tag.py, core/conventions/path.py) *)

None == 0

STATEMENTS_UPDATED == "statements/last_updated"
JOURNAL_UPDATED == "journal/last_updated"
JOURNAL_FLUSHED == "journal/last_flushed"
INDEX == "index.json"
CONFIG == "config.yml"
STATISTICS == "statistics.json"
ENTITIES_JSON == "entities.ftm.json"
EXPORTS_STATEMENTS == "exports/statements.csv"
EXPORTS_DOCUMENTS == "exports/documents.csv"
\* path.EXPORTS_STATISTICS: used by no operation
EXPORTS_STATISTICS == "exports/statistics.json"

TagKeys == {STATEMENTS_UPDATED, JOURNAL_UPDATED, JOURNAL_FLUSHED, INDEX, CONFIG,
            STATISTICS, ENTITIES_JSON, EXPORTS_STATEMENTS, EXPORTS_DOCUMENTS}

ExportPaths == {INDEX, STATISTICS, ENTITIES_JSON, EXPORTS_STATEMENTS, EXPORTS_DOCUMENTS}

----------------------------------------------------------------------------
(* Freshness: the two is_latest implementations of the code base *)

\* [i for i in map(self.get, dependencies) if i]
UpdatedDependencies(tg, dependencies) ==
    SelectSeq([i \in 1..Len(dependencies) |-> tg[dependencies[i]]],
              LAMBDA ts : ts # None)

\* mutant: a dependency with an equal timestamp still counts as older
TagStore_is_latest_ge(tg, key, dependencies) ==
    LET last_updated == tg[key]
        updated_dependencies == UpdatedDependencies(tg, dependencies)
    IN  IF last_updated = None THEN FALSE
        ELSE IF updated_dependencies = <<>> THEN FALSE
        ELSE \A i \in 1..Len(updated_dependencies) :
                last_updated >= updated_dependencies[i]

\* mutant: a dependency that is not set counts as newer than the key
TagStore_is_latest_unset(tg, key, dependencies) ==
    LET last_updated == tg[key]
    IN  IF last_updated = None THEN FALSE
        ELSE IF dependencies = <<>> THEN FALSE
        ELSE \A i \in 1..Len(dependencies) :
                tg[dependencies[i]] # None /\ last_updated > tg[dependencies[i]]

\* storage/tags.py TagStore.is_latest
TagStore_is_latest(tg, key, dependencies) ==
    LET last_updated == tg[key]
        updated_dependencies == UpdatedDependencies(tg, dependencies)
    IN  IF last_updated = None THEN FALSE
        ELSE IF updated_dependencies = <<>> THEN FALSE
        ELSE \A i \in 1..Len(updated_dependencies) :
                last_updated > updated_dependencies[i]

\* lake/mixins.py Tags.is_latest: no check for an empty list of set dependencies
Tags_is_latest(tg, key, dependencies) ==
    LET last_updated == tg[key]
        updated_dependencies == UpdatedDependencies(tg, dependencies)
    IN  IF last_updated = None THEN FALSE
        ELSE \A i \in 1..Len(updated_dependencies) :
                last_updated > updated_dependencies[i]

\* core/freshness.py is_latest: wraps TagStore.is_latest
is_latest(tg, key, dependencies) == TagStore_is_latest(tg, key, dependencies)

----------------------------------------------------------------------------
(* Statements.  A journal row is (id, bucket, origin, canonical_id, data).   *)
(* The statement id fixes the entity (canonical_id) and, through the        *)
(* entity's schema, the bucket; origin is what the writer put on the row;   *)
(* txn stands for the packed data: the writer batch that wrote it.          *)

\* statement ids 1..NumIds
NumIds == 2

Ids == 1..NumIds
\* the origins writers use: "default" (1) and "update" (2), in sort order
Origins == {1, 2}

\* two statements per entity
CanonicalOf(id) == (id + 1) \div 2
\* entities alternate between the two buckets ("thing" = 1, "intervals" = 2)
BucketOf(id) == IF CanonicalOf(id) % 2 = 1 THEN 1 ELSE 2

Rows == [id : Ids, origin : Origins, txn : 1..MaxTxn]

NoPart == <<None, None>>
PartOf(row) == <<BucketOf(row.id), row.origin>>

\* ORDER BY bucket, origin, canonical_id, id
SortKey(row) == <<BucketOf(row.id), row.origin, CanonicalOf(row.id), row.id>>

KeyLess(a, b) ==
    \E k \in 1..Len(a) : a[k] < b[k] /\ \A j \in 1..(k - 1) : a[j] = b[j]

RECURSIVE SortRows(_)
SortRows(S) ==
    IF S = {} THEN <<>>
    ELSE LET m == CHOOSE r \in S : \A o \in S \ {r} : KeyLess(SortKey(r), SortKey(o))
         IN  <<m>> \o SortRows(S \ {m})

SeqSet(sq) == {sq[i] : i \in 1..Len(sq)}

----------------------------------------------------------------------------
(* JournalStore (storage/journal.py): the table `statements`, primary key id *)

\* mutant: INSERT without ON CONFLICT handling keeps the old row next to the new
JournalUpsert_insert(j, rows) == j \cup rows

\* writer commit: INSERT .. ON CONFLICT (id) DO UPDATE
JournalUpsert(j, rows) == {r \in j : \A n \in rows : n.id # r.id} \cup rows

JournalCount(j) == Cardinality(j)

\* the rows of S in the order of the primary key
RECURSIVE RowsById(_)
RowsById(S) ==
    IF S = {} THEN <<>>
    ELSE LET m == CHOOSE r \in S : \A o \in S \ {r} : r.id < o.id
         IN  <<m>> \o RowsById(S \ {m})

\* mutant: SELECT without ORDER BY, the rows come in the order of the primary key
JournalFlushRows_unordered(j) == RowsById(j)

\* flush(): the rows, ordered, as the transaction of the flush sees them
JournalFlushRows(j) == SortRows(j)

\* mutant: the flush ends with DELETE FROM statements
JournalRemove_all(j, yielded) == {}

\* mutant: the deletion of the yielded rows is never committed
JournalRemove_none(j, yielded) == j

\* flush(), sequence drained: the rows that were yielded are deleted
JournalRemove(j, yielded) == j \ yielded

\* mutant: a consumer error commits the deletion of the rows yielded so far
JournalRollback_partial(j, consumed) == j \ consumed

\* flush(), consumer raised: the deletion is rolled back
JournalRollback(j, consumed) == j

----------------------------------------------------------------------------
(* ParquetStore / LakeWriter (storage/parquet.py, ftmq.store.lake) *)

\* mutant: the batch is appended, rows with a known id are kept
StoreMerge_append(rows, batch) == rows \cup batch

\* a commit upserts the batch on the statement id
StoreMerge(rows, batch) == {r \in rows : \A n \in batch : n.id # r.id} \cup batch

StoreCount(rows, id) == Cardinality({r \in rows : r.id = id})

----------------------------------------------------------------------------
(* The state an operation works on, as one record, so that calls compose.   *)
(* failAt: the I/O call of this top-level call that raises (0: none does);  *)
(* exc: an exception is propagating; hf: what the last flush of the call    *)
(* did; handled: how often an operation's handle was entered; wrote: the     *)
(* rows a journal writer committed; had: the journal rows they replaced;    *)
(* early: the rows a writer committed with flush() inside its scope;        *)
(* pending: the rows of the writer's open batch when the scope was left;    *)
(* dec: the tags that a put of the call set to an earlier time than the one *)
(* they held.                                                               *)

NoFlush == [active |-> FALSE, now |-> None, rows |-> <<>>, i |-> 1, cur |-> NoPart,
            bulk |-> {}, drained |-> FALSE, done |-> {}, during |-> {}, total |-> 0]

NoHist == [state |-> "none", snap |-> {}, done |-> {}, during |-> {}, total |-> 0,
           drained |-> FALSE]

Cur(failAt) ==
    [clock |-> clock, tags |-> tags, journal |-> journal, txn |-> txn, store |-> store,
     sver |-> sver, fl |-> fl, files |-> files, versions |-> versions,
     failAt |-> failAt, exc |-> FALSE, hf |-> NoHist, handled |-> 0, skipped |-> FALSE,
     entry |-> None, wrote |-> {}, had |-> {}, early |-> {}, pending |-> {},
     dec |-> {}]

\* the value of a call, given as the set of its results: binds it once
Only(S) == CHOOSE x \in S : TRUE

\* datetime.now()
Now(s) == [s EXCEPT !.clock = @ + 1]

\* an I/O call on a store: raises if it is the one the fault is injected into
IO(s) ==
    IF s.failAt = 1 THEN [s EXCEPT !.exc = TRUE, !.failAt = 0]
    ELSE [s EXCEPT !.failAt = IF @ = 0 THEN 0 ELSE @ - 1]

\* the tag store's put(key, ts): the timestamp is overwritten
TagPut(s, key, ts) ==
    [s EXCEPT !.tags[key] = ts,
              !.dec = IF s.tags[key] # None /\ ts < s.tags[key] THEN @ \cup {key} ELSE @]

\* storage/tags.py TagStore.set(key): ts = datetime.now(); put(key, ts)
TagSet(s, key) == LET e == Now(s) IN TagPut(e, key, e.clock)

\* tags.exists(key)
TagExists(s, key) == s.tags[key] # None

----------------------------------------------------------------------------
(* EntityRepository.flush (repository/entities.py), one step per journal    *)
(* row so that a writer can commit between the steps.                       *)

\* bulk.flush() of the open parquet writer: nothing to do for an empty batch,
\* else one commit of the whole batch
WriterFlush(s) ==
    IF s.fl.bulk = {} THEN s
    ELSE LET f == IO(s)
         IN  IF f.exc THEN f
             ELSE [f EXCEPT !.store = StoreMerge(@, s.fl.bulk),
                            !.sver = @ + 1,
                            !.fl.done = @ \cup s.fl.bulk,
                            !.fl.bulk = {}]

\* an exception leaves the loop and the touch scope: the journal's generator is
\* closed (its deletion rolled back unless it had committed), the open parquet
\* batch is dropped and journal/last_flushed is not committed
FlushRaise(s) ==
    [s EXCEPT !.exc = TRUE,
              !.journal = IF s.fl.drained THEN @
                          ELSE JournalRollback(@, SeqSet(SubSeq(s.fl.rows, 1, s.fl.i - 1))),
              !.hf = [state |-> "raised", snap |-> SeqSet(s.fl.rows), done |-> s.fl.done,
                      during |-> s.fl.during, total |-> s.fl.total,
                      drained |-> s.fl.drained],
              !.fl = NoFlush]

\* mutant: the empty-journal return sets both tags whether they exist or not
FlushBegin_settags(s) ==
    IF JournalCount(s.journal) = 0
    THEN LET s1 == TagSet(s, JOURNAL_FLUSHED)
             s2 == TagSet(s1, STATEMENTS_UPDATED)
         IN  [s2 EXCEPT !.hf = [NoHist EXCEPT !.state = "empty"]]
    ELSE LET e == Now(s)
         IN  [e EXCEPT !.fl = [NoFlush EXCEPT !.active = TRUE, !.now = e.clock,
                                              !.rows = JournalFlushRows(s.journal)]]

\* lines 111-128: the empty-journal return, else enter touch(journal/last_flushed)
\* and open the journal's flush sequence
FlushBegin(s) ==
    IF JournalCount(s.journal) = 0
    THEN LET s1 == IF ~TagExists(s, JOURNAL_FLUSHED) THEN TagSet(s, JOURNAL_FLUSHED) ELSE s
             s2 == IF ~TagExists(s1, STATEMENTS_UPDATED)
                   THEN TagSet(s1, STATEMENTS_UPDATED) ELSE s1
         IN  [s2 EXCEPT !.hf = [NoHist EXCEPT !.state = "empty"]]
    ELSE LET e == Now(s)
         IN  [e EXCEPT !.fl = [NoFlush EXCEPT !.active = TRUE, !.now = e.clock,
                                              !.rows = JournalFlushRows(s.journal)]]

\* mutant: the parquet writer is flushed after every statement
FlushRow_each(s) ==
    LET f == IO(s)
        row == s.fl.rows[s.fl.i]
    IN  IF f.exc THEN FlushRaise(f)
        ELSE LET a == [f EXCEPT !.fl.cur = PartOf(row), !.fl.bulk = @ \cup {row}]
                 w == WriterFlush(a)
             IN  IF w.exc THEN FlushRaise(w)
                 ELSE [w EXCEPT !.fl.i = @ + 1, !.fl.total = @ + 1]

\* lines 128-140: one iteration of the loop over journal.flush()
FlushRow(s) ==
    LET f == IO(s)
        row == s.fl.rows[s.fl.i]
    IN  IF f.exc THEN FlushRaise(f)
        ELSE LET w == IF PartOf(row) # f.fl.cur
                      THEN [WriterFlush(f) EXCEPT !.fl.cur = PartOf(row)]
                      ELSE f
             IN  IF w.exc THEN FlushRaise(w)
                 ELSE [w EXCEPT !.fl.bulk = @ \cup {row},
                                !.fl.i = @ + 1,
                                !.fl.total = @ + 1]

\* line 128, the sequence is drained: the journal deletes what it yielded
FlushDrain(s) ==
    LET f == IO(s)
    IN  IF f.exc THEN FlushRaise(f)
        ELSE [f EXCEPT !.journal = JournalRemove(@, SeqSet(s.fl.rows)),
                       !.fl.drained = TRUE]

\* mutant: the final batch is never flushed
FlushFinish_nofinal(s) ==
    LET t == TagSet(s, STATEMENTS_UPDATED)
    IN  [t EXCEPT !.tags[JOURNAL_FLUSHED] = s.fl.now,
                  !.hf = [state |-> "ok", snap |-> SeqSet(s.fl.rows), done |-> s.fl.done,
                          during |-> s.fl.during, total |-> s.fl.total,
                          drained |-> s.fl.drained],
                  !.fl = NoFlush]

\* lines 142-154: final batch, statements/last_updated, leave the touch scope
FlushFinish(s) ==
    LET w == WriterFlush(s)
    IN  IF w.exc THEN FlushRaise(w)
        ELSE LET t == TagSet(w, STATEMENTS_UPDATED)
             IN  [t EXCEPT !.tags[JOURNAL_FLUSHED] = w.fl.now,
                           !.hf = [state |-> "ok", snap |-> SeqSet(w.fl.rows),
                                   done |-> w.fl.done, during |-> w.fl.during,
                                   total |-> w.fl.total, drained |-> w.fl.drained],
                           !.fl = NoFlush]

FlushStep(s) ==
    IF s.fl.i <= Len(s.fl.rows) THEN FlushRow(s)
    ELSE IF ~s.fl.drained THEN FlushDrain(s)
    ELSE FlushFinish(s)

RECURSIVE RunFlush(_)
RunFlush(s) ==
    IF s.fl.active THEN Only({RunFlush(n) : n \in {FlushStep(s)}}) ELSE s

\* EntityRepository.flush() run to its end by a single caller
RepoFlush(s) ==
    IF s.exc THEN s ELSE Only({RunFlush(b) : b \in {FlushBegin(s)}})

----------------------------------------------------------------------------
(* EntityRepository.bulk (repository/entities.py 67-86) around a journal    *)
(* writer: the batch is committed on a normal exit and rolled back on an    *)
(* exception; journal/last_updated is set in both cases.                    *)

\* batches: what a writer opened with bulk(origin) adds, statements with
\* pairwise different ids that carry the writer's origin
Batches == {{[id |-> i, origin |-> o] : i \in I} : I \in SUBSET Ids, o \in Origins}

\* mutant: an exception leaves the scope through writer.flush()
BulkRun_commit(s, b, raised) ==
    LET n == s.txn + 1
        rows == {[id |-> r.id, origin |-> r.origin, txn |-> n] : r \in b}
        w == [s EXCEPT !.journal = JournalUpsert(@, rows),
                       !.fl.during = IF s.fl.active THEN @ \cup rows ELSE @,
                       !.wrote = rows,
                       !.had = {r \in s.journal : \E x \in rows : x.id = r.id}]
    IN  TagSet([w EXCEPT !.txn = n, !.exc = raised], JOURNAL_UPDATED)

\* lines 76-86: the body added the batch b; on an exception writer.rollback(),
\* else writer.flush(); journal/last_updated is set in both cases
BulkRun(s, b, raised) ==
    LET n == s.txn + 1
        rows == {[id |-> r.id, origin |-> r.origin, txn |-> n] : r \in b}
        w == IF raised THEN s
             ELSE [s EXCEPT !.journal = JournalUpsert(@, rows),
                            !.fl.during = IF s.fl.active THEN @ \cup rows ELSE @,
                            !.wrote = rows,
                            !.had = {r \in s.journal : \E x \in rows : x.id = r.id}]
    IN  TagSet([w EXCEPT !.txn = n, !.exc = raised], JOURNAL_UPDATED)

\* the statements a writer with the origin adds for the ids
BatchOf(I, origin) == {[id |-> i, origin |-> origin] : i \in I}

\* writer.flush() called inside the scope: the pending batch is committed
WriterCommit(s, b) ==
    LET n == s.txn + 1
        rows == {[id |-> r.id, origin |-> r.origin, txn |-> n] : r \in b}
    IN  [s EXCEPT !.journal = JournalUpsert(@, rows),
                  !.fl.during = IF s.fl.active THEN @ \cup rows ELSE @,
                  !.txn = n,
                  !.early = rows]

\* a bulk scope whose body adds the batch early, calls writer.flush() (unless
\* early is empty), adds the batch b and returns or raises
BulkScope(s, early, b, raised) ==
    LET a == IF early = {} THEN s ELSE WriterCommit(s, early)
        r == Only({BulkRun(x, b, raised) : x \in {a}})
    IN  [r EXCEPT !.pending = {[id |-> x.id, origin |-> x.origin, txn |-> r.txn] : x \in b}]

----------------------------------------------------------------------------
(* Tags.touch and the version store *)

\* tags.touch(key), entry of the scope: the clock is read
TouchEnter(s) == Now(s)

\* mutant: the tag is put with the time the scope is left
TouchExit_now(e, r, key) ==
    IF r.exc THEN r ELSE TagSet(r, key)

\* tags.touch(key), exit of the scope entered in state e and left in state r:
\* the tag is put on a normal exit and left alone when an exception leaves it
TouchExit(e, r, key) ==
    IF r.exc THEN r ELSE TagPut(r, key, e.clock)

\* a write of an export file at path: the object's modification time is now
WriteFile(s, path) ==
    LET f == IO(s)
    IN  IF f.exc THEN f
        ELSE LET n == Now(f) IN [n EXCEPT !.files[path] = n.clock]

\* storage/versions.py VersionedModelStore.make: inside touch(key), the snapshot
\* versions/YYYY/MM/<ts>/key and then the current copy at key
VersionsMake(s, key) ==
    LET e == TouchEnter(s)
        v == Now(e)
        p == IO(v)
    IN  Only({TouchExit(e, r, key) :
                r \in {IF p.exc THEN p
                       ELSE WriteFile([p EXCEPT !.versions = @ \cup {<<key, v.clock>>}],
                                      key)}})

\* storage/versions.py VersionStore.get, raise_on_nonexist left at its default
VersionsGet(s, key) ==
    IF s.files[key] = None THEN [s EXCEPT !.exc = TRUE] ELSE s

----------------------------------------------------------------------------
(* Export operations (operation/export.py) *)

Ops == {"statements", "entities", "documents", "statistics", "index"}

\* the job's target
Target(k) ==
    CASE k = "statements" -> EXPORTS_STATEMENTS
      [] k = "entities" -> ENTITIES_JSON
      [] k = "documents" -> EXPORTS_DOCUMENTS
      [] k = "statistics" -> STATISTICS
      [] k = "index" -> INDEX

\* mutant: the exports depend on the statement store only
Deps_statements(k) ==
    IF k = "index" THEN <<CONFIG, STATISTICS, ENTITIES_JSON, EXPORTS_DOCUMENTS>>
    ELSE <<STATEMENTS_UPDATED>>

\* the job's dependencies
Deps(k) ==
    IF k = "index" THEN <<CONFIG, STATISTICS, ENTITIES_JSON, EXPORTS_DOCUMENTS>>
    ELSE <<STATEMENTS_UPDATED, JOURNAL_UPDATED>>

\* mutant: the journal is flushed before every export
EnsureFlush_always(s) ==
    IF s.exc THEN s ELSE RepoFlush(s)

\* BaseExportOperation.ensure_flush
EnsureFlush(s) ==
    IF s.exc THEN s
    ELSE IF ~TagStore_is_latest(s.tags, JOURNAL_FLUSHED, <<JOURNAL_UPDATED>>)
         THEN RepoFlush(s)
         ELSE s

\* BaseExportOperation.export_statements
ExportStatements(s) ==
    Only({IF f.exc THEN f ELSE WriteFile(f, EXPORTS_STATEMENTS) : f \in {EnsureFlush(s)}})

\* BaseExportOperation.export_entities; entities.query() flushes first
ExportEntities(s) ==
    Only({IF f.exc THEN f ELSE WriteFile(f, ENTITIES_JSON) :
            f \in {RepoFlush(e) : e \in {EnsureFlush(s)}}})

\* BaseExportOperation.export_documents
ExportDocuments(s) ==
    Only({IF f.exc THEN f ELSE WriteFile(f, EXPORTS_DOCUMENTS) : f \in {EnsureFlush(s)}})

\* BaseExportOperation.export_statistics
ExportStatistics(s) ==
    Only({IF f.exc THEN f ELSE VersionsMake(f, STATISTICS) : f \in {EnsureFlush(s)}})

Export(s, k) ==
    CASE k = "statements" -> ExportStatements(s)
      [] k = "entities" -> ExportEntities(s)
      [] k = "documents" -> ExportDocuments(s)
      [] k = "statistics" -> ExportStatistics(s)

\* ExportIndexOperation.handle, one `if run.job.include_...` block
IndexInclude(s, k, force, include) ==
    IF s.exc \/ k \notin include THEN s
    ELSE IF force \/ ~TagStore_is_latest(s.tags, Target(k), <<STATEMENTS_UPDATED>>)
         THEN LET e == TouchEnter(s)
              IN  Only({TouchExit(e, r, Target(k)) : r \in {Export(e, k)}})
         ELSE s

\* ExportIndexOperation.handle
IndexHandle(s, force, include) ==
    Only({IF d.exc THEN d
          ELSE LET g == VersionsGet(d, STATISTICS)
               IN  IF g.exc THEN g ELSE VersionsMake(g, INDEX) :
            d \in {IndexInclude(c, "statistics", force, include) :
              c \in {IndexInclude(b, "documents", force, include) :
                b \in {IndexInclude(a, "entities", force, include) :
                  a \in {IndexInclude(f, "statements", force, include) :
                    f \in {EnsureFlush(s)}}}}}})

\* the operation's handle
Handle(s, k, force, include) ==
    IF k = "index" THEN IndexHandle(s, force, include) ELSE Export(s, k)

----------------------------------------------------------------------------
(* DatasetJobOperation.run (operation/base.py 83-120) *)

\* mutant: the handle runs first and the target is tagged when it is done
OpRun_after(s, k, force, include) ==
    IF s.exc THEN s
    ELSE IF ~force /\ Target(k) # "" /\ Deps(k) # <<>>
            /\ TagStore_is_latest(s.tags, Target(k), Deps(k))
         THEN [s EXCEPT !.skipped = TRUE]
         ELSE LET e == Now(s)
              IN  Only({TagSet(r, Target(k)) :
                          r \in {Handle([e EXCEPT !.handled = @ + 1, !.entry = e.clock],
                                        k, force, include)}})

\* mutant: the freshness check is made against no dependency
OpRun_nodeps(s, k, force, include) ==
    IF s.exc THEN s
    ELSE IF ~force /\ Target(k) # "" /\ Deps(k) # <<>>
            /\ TagStore_is_latest(s.tags, Target(k), <<>>)
         THEN [s EXCEPT !.skipped = TRUE]
         ELSE LET e == TouchEnter(s)
              IN  Only({TouchExit(e, r, Target(k)) :
                          r \in {Handle([e EXCEPT !.handled = @ + 1, !.entry = e.clock],
                                        k, force, include)}})

OpRun(s, k, force, include) ==
    IF s.exc THEN s
    ELSE IF ~force /\ Target(k) # "" /\ Deps(k) # <<>>
            /\ TagStore_is_latest(s.tags, Target(k), Deps(k))
         THEN [s EXCEPT !.skipped = TRUE]
         ELSE LET e == TouchEnter(s)
              IN  Only({TouchExit(e, r, Target(k)) :
                          r \in {Handle([e EXCEPT !.handled = @ + 1, !.entry = e.clock],
                                        k, force, include)}})

\* mutant: the index job of make exports what it includes itself
Make_include(s, force) ==
    Only({OpRun(d, "index", force, Ops \ {"index"}) :
            d \in {OpRun(c, "statistics", force, {}) :
              c \in {OpRun(b, "documents", force, {}) :
                b \in {OpRun(a, "entities", force, {}) :
                  a \in {OpRun(f, "statements", force, {}) :
                    f \in {RepoFlush(s)}}}}}})

\* operation/factories.py make
Make(s, force) ==
    Only({OpRun(d, "index", force, {}) :
            d \in {OpRun(c, "statistics", force, {}) :
              c \in {OpRun(b, "documents", force, {}) :
                b \in {OpRun(a, "entities", force, {}) :
                  a \in {OpRun(f, "statements", force, {}) :
                    f \in {RepoFlush(s)}}}}}})

----------------------------------------------------------------------------
(* Diff exporter (repository/diff.py, repository/entities.py,              *)
(* repository/documents.py).                                               *)
(*                                                                         *)
(* The parquet store is seen at the level of entities: a commit of the     *)
(* delta table is the set of its change records, one per changed entity    *)
(* and change type, with a flag telling whether the contentHash statement  *)
(* of the entity is among the changed statements.  The content of an       *)
(* entity is its revision: the number of the commit that wrote it last.    *)
(* Entity 1 has schema Document, every other entity has schema Person.     *)
(***************************************************************************)

\* commits of the delta table in a behaviour
MaxCommits == 2
\* export_diff calls in a behaviour
MaxDiffCalls == 2

\* the entities of the dataset: a document and a person
EntityIds == {1, 2}
Documents == {1}

\* ParquetStore.version of a dataset without a delta table (None)
NoVersion == -1

DIFFS_ENTITIES == "diffs/entities.ftm.json"
DIFFS_DOCUMENTS == "diffs/exports/documents.csv"

\* the repositories with the diff mixin, named by their _diff_base_path
Repos == {DIFFS_ENTITIES, DIFFS_DOCUMENTS}

\* where a fault hits an export_diff call: before anything is written,
\* while the diff file is written, or when the diff state is persisted
DiffFaults == {"none", "read", "write", "state"}

NoDiffCall == [repo |-> "", fault |-> "none", exc |-> FALSE, ret |-> NoVersion,
               prev |-> NoVersion, cur |-> NoVersion, initial |-> FALSE,
               wrote |-> FALSE, lines |-> {}]

\* the dataset as one repository sees it: the delta table (log, ents), the
\* full export of the repository (xfile), its diff state tag (state), the tag
\* of its touch scope (touched), its diff files (diffs), and the calls made
NoDiff(repo) == [repo |-> repo,
                 log |-> <<>>,
                 ents |-> [i \in EntityIds |-> 0],
                 xfile |-> [exists |-> FALSE, rows |-> {}],
                 state |-> NoVersion,
                 touched |-> None,
                 diffs |-> {},
                 last |-> NoDiffCall,
                 n |-> 0]

\* ParquetStore.version: the version of the delta table, the first commit is 0
ParquetVersion(d) == IF d.log = <<>> THEN NoVersion ELSE Len(d.log) - 1

\* the change records of a merge that writes the entities of I, those of H
\* with a changed contentHash statement; same: the record is of a statement
\* whose value the store already held for the entity
CommitChanges(d, I, H) ==
    UNION {IF d.ents[i] = 0
           THEN {[id |-> i, type |-> "insert", hash |-> i \in Documents, same |-> FALSE]}
           ELSE {[id |-> i, type |-> "update_preimage", hash |-> i \in H, same |-> FALSE],
                 [id |-> i, type |-> "update_postimage", hash |-> i \in H, same |-> FALSE]}
           : i \in I}

\* the change records of a merge that writes the contentHash statements of the
\* documents of O again, with the value the store holds, for another origin:
\* a new row in the partition of that origin
OriginChanges(d, O) ==
    {[id |-> i, type |-> "insert", hash |-> TRUE, same |-> TRUE] : i \in O}

\* a flush commits the statements of a writer with another origin
DeltaCommitOrigin(d, O) ==
    [d EXCEPT !.log = Append(d.log, OriginChanges(d, O)),
              !.ents = [i \in EntityIds |-> IF i \in O THEN Len(d.log) + 1 ELSE d.ents[i]]]

\* a flush commits the entities of I to the delta table
DeltaCommit(d, I, H) ==
    [d EXCEPT !.log = Append(d.log, CommitChanges(d, I, H)),
              !.ents = [i \in EntityIds |-> IF i \in I THEN Len(d.log) + 1 ELSE d.ents[i]]]

\* ParquetStore.optimize: a commit that changes no row
DeltaOptimize(d) == [d EXCEPT !.log = Append(d.log, {})]

\* get_changes that reads the change feed from the first commit on
GetChanges_fromfirst(d, start_version, end_version) ==
    UNION {d.log[v + 1] : v \in 0..end_version}

\* ParquetStore.get_changes(start_version, end_version)
GetChanges(d, start_version, end_version) ==
    UNION {d.log[v + 1] : v \in (IF start_version = 0 THEN 1 ELSE start_version)..end_version}

\* EntityRepository._filter_changes
EntityFilterChanges(changes) ==
    {c.id : c \in {x \in changes : x.type \in {"insert", "update_postimage"}}}

\* DocumentRepository._filter_changes
DocumentFilterChanges(changes) ==
    {c.id : c \in {x \in changes : /\ x.type \in {"insert", "update_postimage"}
                                   /\ x.id \in Documents
                                   /\ x.hash}}

FilterChanges(repo, changes) ==
    IF repo = DIFFS_ENTITIES THEN EntityFilterChanges(changes)
    ELSE DocumentFilterChanges(changes)

\* EntityRepository._make_envelope(data, op="ADD")
MakeEnvelope(row, op) == [op |-> op, id |-> row.id, rev |-> row.rev]

\* EntityRepository.query(entity_ids, flush_first=False): no filter when entity_ids is empty
QueryEntities(d, entity_ids) ==
    {[id |-> i, rev |-> d.ents[i]] :
        i \in {j \in EntityIds : d.ents[j] # 0 /\ (entity_ids = {} \/ j \in entity_ids)}}

\* DocumentRepository.collect(entity_id__in=...): the documents among the entities
CollectDocuments(d, filtered, entity_ids) ==
    {[id |-> i, rev |-> d.ents[i]] :
        i \in {j \in Documents : d.ents[j] # 0 /\ (~filtered \/ j \in entity_ids)}}

\* EntityRepository._get_delta_entities
GetDeltaEntities(d, entity_ids) ==
    {MakeEnvelope(row, "ADD") : row \in QueryEntities(d, entity_ids)}

\* the rows of a documents csv: rows have no envelope
CsvRows(rows) == {[op |-> "", id |-> row.id, rev |-> row.rev] : row \in rows}

\* the full export of a repository: entities.ftm.json, exports/documents.csv
ExportFull(d, repo) ==
    [d EXCEPT !.xfile =
        [exists |-> TRUE,
         rows |-> IF repo = DIFFS_ENTITIES THEN QueryEntities(d, {})
                  ELSE CollectDocuments(d, FALSE, {})]]

\* a diff file; a file whose writer failed holds no complete line
DiffFile(repo, v, ts, lines) == [repo |-> repo, v |-> v, ts |-> ts, lines |-> lines]

\* _write_diff: the lines of the incremental diff for the changed entity ids
WriteDiffLines(d, repo, entity_ids) ==
    IF repo = DIFFS_ENTITIES THEN GetDeltaEntities(d, entity_ids)
    ELSE CsvRows(CollectDocuments(d, TRUE, entity_ids))

\* DocumentRepository._write_initial_diff exports documents.csv first when it is missing
InitialSource(d, repo) ==
    IF repo = DIFFS_DOCUMENTS /\ ~d.xfile.exists THEN ExportFull(d, repo) ELSE d

\* _write_initial_diff: the lines copied from the exported file
InitialDiffLines(d, repo) ==
    IF repo = DIFFS_ENTITIES
    THEN {MakeEnvelope(row, "ADD") : row \in d.xfile.rows}
    ELSE CsvRows(d.xfile.rows)

\* the call returns: the touch scope sets its tag, the result is recorded
DiffReturn(d, repo, fault, ts, ret, prev, cur, initial, wrote, lines) ==
    [d EXCEPT !.touched = ts,
              !.last = [repo |-> repo, fault |-> fault, exc |-> FALSE, ret |-> ret,
                        prev |-> prev, cur |-> cur, initial |-> initial,
                        wrote |-> wrote, lines |-> lines]]

\* the call raises: the touch scope leaves its tag alone
DiffRaise(d, repo, fault, prev, cur, initial, wrote) ==
    [d EXCEPT !.last = [repo |-> repo, fault |-> fault, exc |-> TRUE, ret |-> NoVersion,
                        prev |-> prev, cur |-> cur, initial |-> initial,
                        wrote |-> wrote, lines |-> {}]]

\* the initial diff of export_diff (no diff state yet)
ExportInitialDiff(d0, repo, fault, ts, cur) ==
    LET d == InitialSource(d0, repo)
        lines == InitialDiffLines(d, repo)
    IN  IF ~d.xfile.exists \/ fault = "write"
        THEN DiffRaise([d EXCEPT !.diffs = @ \cup {DiffFile(repo, cur, ts, {})}],
                       repo, fault, NoVersion, cur, TRUE, TRUE)
        ELSE IF fault = "state"
        THEN DiffRaise([d EXCEPT !.diffs = @ \cup {DiffFile(repo, cur, ts, lines)}],
                       repo, fault, NoVersion, cur, TRUE, TRUE)
        ELSE DiffReturn([d EXCEPT !.diffs = @ \cup {DiffFile(repo, cur, ts, lines)},
                                  !.state = cur],
                        repo, fault, ts, cur, NoVersion, cur, TRUE, TRUE, lines)

\* an incremental diff that persists the diff state before it writes the file
ExportIncrementalDiff_statefirst(d, repo, fault, ts, prev, cur) ==
    LET changed_entity_ids == FilterChanges(repo, GetChanges(d, prev + 1, cur))
        lines == WriteDiffLines(d, repo, changed_entity_ids)
    IN  IF changed_entity_ids = {}
        THEN DiffReturn(d, repo, fault, ts, NoVersion, prev, cur, FALSE, FALSE, {})
        ELSE IF fault = "write"
        THEN DiffRaise([d EXCEPT !.diffs = @ \cup {DiffFile(repo, cur, ts, {})},
                                 !.state = cur],
                       repo, fault, prev, cur, FALSE, TRUE)
        ELSE IF fault = "state"
        THEN DiffRaise([d EXCEPT !.diffs = @ \cup {DiffFile(repo, cur, ts, lines)}],
                       repo, fault, prev, cur, FALSE, TRUE)
        ELSE DiffReturn([d EXCEPT !.diffs = @ \cup {DiffFile(repo, cur, ts, lines)},
                                  !.state = cur],
                        repo, fault, ts, cur, prev, cur, FALSE, TRUE, lines)

\* the incremental diff of export_diff for the versions prev + 1 .. cur
ExportIncrementalDiff(d, repo, fault, ts, prev, cur) ==
    LET changed_entity_ids == FilterChanges(repo, GetChanges(d, prev + 1, cur))
        lines == WriteDiffLines(d, repo, changed_entity_ids)
    IN  IF changed_entity_ids = {}
        THEN DiffReturn(d, repo, fault, ts, NoVersion, prev, cur, FALSE, FALSE, {})
        ELSE IF fault = "write"
        THEN DiffRaise([d EXCEPT !.diffs = @ \cup {DiffFile(repo, cur, ts, {})}],
                       repo, fault, prev, cur, FALSE, TRUE)
        ELSE IF fault = "state"
        THEN DiffRaise([d EXCEPT !.diffs = @ \cup {DiffFile(repo, cur, ts, lines)}],
                       repo, fault, prev, cur, FALSE, TRUE)
        ELSE DiffReturn([d EXCEPT !.diffs = @ \cup {DiffFile(repo, cur, ts, lines)},
                                  !.state = cur],
                        repo, fault, ts, cur, prev, cur, FALSE, TRUE, lines)

\* export_diff that does not read the diff state and writes a full diff every time
ExportDiff_nostate(d0, repo, fault) ==
    LET ts == d0.n + 1
        d == [d0 EXCEPT !.n = ts]
        cur == ParquetVersion(d)
    IN  IF fault = "read"
        THEN DiffRaise(d, repo, fault, d.state, cur, FALSE, FALSE)
        ELSE IF cur = NoVersion
        THEN DiffReturn(d, repo, fault, ts, NoVersion, d.state, cur, FALSE, FALSE, {})
        ELSE ExportInitialDiff(d, repo, fault, ts, cur)

\* ParquetDiffMixin.export_diff
ExportDiff(d0, repo, fault) ==
    LET ts == d0.n + 1
        d == [d0 EXCEPT !.n = ts]
        cur == ParquetVersion(d)
        prev == d.state
    IN  IF fault = "read"
        THEN DiffRaise(d, repo, fault, prev, cur, FALSE, FALSE)
        ELSE IF cur = NoVersion
        THEN DiffReturn(d, repo, fault, ts, NoVersion, prev, cur, FALSE, FALSE, {})
        ELSE IF prev = NoVersion
        THEN ExportInitialDiff(d, repo, fault, ts, cur)
        ELSE IF prev >= cur
        THEN DiffReturn(d, repo, fault, ts, NoVersion, prev, cur, FALSE, FALSE, {})
        ELSE ExportIncrementalDiff(d, repo, fault, ts, prev, cur)

\* a flush commits changed entities to the delta table
DiffFlush ==
    \E I \in SUBSET EntityIds \ {{}} :
        \E H \in SUBSET (I \cap Documents) :
            /\ Len(df.log) < MaxCommits
            /\ df' = DeltaCommit(df, I, H)
            /\ UNCHANGED NotDiff

\* a flush commits contentHash statements that the store holds, written again
\* with bulk(origin) for another origin
DiffFlushOrigin ==
    \E O \in SUBSET Documents \ {{}} :
        /\ Len(df.log) < MaxCommits
        /\ \A i \in O : df.ents[i] # 0
        /\ df' = DeltaCommitOrigin(df, O)
        /\ UNCHANGED NotDiff

\* the delta table is optimized
DiffOptimize ==
    /\ df.log # <<>>
    /\ Len(df.log) < MaxCommits
    /\ df' = DeltaOptimize(df)
    /\ UNCHANGED NotDiff

\* entities.ftm.json or exports/documents.csv is exported
DiffExportFull ==
    /\ df' = ExportFull(df, df.repo)
    /\ UNCHANGED NotDiff

\* export_diff() is called on a repository
DiffExport ==
    \E fault \in DiffFaults :
        /\ df.n < MaxDiffCalls
        /\ df' = ExportDiff(df, df.repo, fault)
        /\ UNCHANGED NotDiff

----------------------------------------------------------------------------
(* Blob archive (repository/archive.py) and the crawl (operation/crawl.py). *)
(*                                                                         *)
(* A file content is a number, its SHA-1 another number: Sha1 is injective *)
(* and no content is its own checksum.  A source is a store of files, one  *)
(* content per source path.                                                *)
(***************************************************************************)

\* archive calls in a behaviour
MaxArchiveCalls == 2

Contents == {1, 2}
Sha1(bytes) == 10 + bytes
Checksums == {Sha1(b) : b \in Contents}

\* the keys of the crawled source, in the order of iterate_keys
CrawlKeys == <<"src1/a.txt", "src2/a.txt", "src2/b.txt">>
SourcePaths == {CrawlKeys[i] : i \in DOMAIN CrawlKeys}

\* UriResource(uri).info().key of a source path: the name of the file
InfoKey(uri) == IF uri = "src2/b.txt" THEN "b.txt" ELSE "a.txt"

ARCHIVE_UPDATED == "archive/last_updated"

\* CrawlJob.existing
HandleExistingMode == {"overwrite", "skip_path", "skip_checksum", "none"}

\* where a fault hits a store call: while the blob is stored, when the metadata
\* is put, or when the tag is set
ArchiveFaults == {"none", "blob", "meta", "tag"}

\* File.id: "file-" + sha1(key + checksum)
FileId(key, checksum) == <<key, checksum>>

\* File.from_info(info, checksum) with file.checksum = checksum and the key
\* of the info or of the caller; uri is the source path (raw name) of the info
MakeFile(uri, key, checksum) ==
    [checksum |-> checksum, key |-> key, uri |-> uri, id |-> FileId(key, checksum)]

\* File.meta_path: path.archive_meta(checksum, file_id)
MetaPath(file) == <<file.checksum, file.id>>

NoArchiveCall == [kind |-> "init", key |-> "", given |-> None, fault |-> "none",
                  existing |-> "", is_local |-> FALSE,
                  exc |-> FALSE, ret |-> None, done |-> 0]

\* a call of the archive and a crawl, as they are made
ArchiveCall(kind, key, given, fault) ==
    [kind |-> kind, key |-> key, given |-> given, fault |-> fault,
     existing |-> "", is_local |-> FALSE]

CrawlCall(existing, is_local) ==
    [kind |-> "crawl", key |-> "", given |-> None, fault |-> "none",
     existing |-> existing, is_local |-> is_local]

\* the archive of a dataset: blob under each checksum (None when absent), the
\* metadata records by meta path, the archive tag; the source files; how many
\* times a blob was written under each checksum and the checksums of the blobs
\* written under a checksum the caller supplied; the calls made
NoArchive(src) == [blobs |-> [c \in Checksums |-> None],
                   meta |-> {},
                   tag |-> None,
                   clock |-> 0,
                   src |-> src,
                   writes |-> [c \in Checksums |-> 0],
                   supplied |-> {},
                   ret |-> None,
                   exc |-> FALSE,
                   done |-> 0,
                   last |-> NoArchiveCall,
                   n |-> 0]

\* ArchiveRepository.exists
ArchiveExists(a, checksum) == a.blobs[checksum] # None

\* self._store.open(path.archive_blob(checksum), "wb"); stream(fh, out)
PutBlob(a, checksum, bytes, supplied) ==
    [a EXCEPT !.blobs[checksum] = bytes, !.writes[checksum] = @ + 1, !.ret = checksum,
              !.supplied = IF supplied THEN @ \cup {checksum} ELSE @]

\* write_blob that does not look for the blob before it writes
WriteBlob_overwrite(a, bytes, checksum) ==
    PutBlob(a, IF checksum = None THEN Sha1(bytes) ELSE checksum, bytes, checksum # None)

\* ArchiveRepository.write_blob(fh, checksum)
WriteBlob(a, bytes, checksum) ==
    IF checksum # None /\ ArchiveExists(a, checksum)
    THEN [a EXCEPT !.ret = checksum]
    ELSE IF checksum = None
    THEN IF ArchiveExists(a, Sha1(bytes))
         THEN [a EXCEPT !.ret = Sha1(bytes)]
         ELSE PutBlob(a, Sha1(bytes), bytes, FALSE)
    ELSE PutBlob(a, checksum, bytes, TRUE)

\* ArchiveRepository.store_blob(uri, checksum); fh.checksum is the SHA-1 of the source
StoreBlob(a, uri, checksum) ==
    IF checksum # None /\ ArchiveExists(a, checksum)
    THEN [a EXCEPT !.ret = checksum]
    ELSE IF ArchiveExists(a, Sha1(a.src[uri]))
    THEN [a EXCEPT !.ret = Sha1(a.src[uri])]
    ELSE [WriteBlob(a, a.src[uri], checksum) EXCEPT !.ret = Sha1(a.src[uri])]

\* self._files.put(file.meta_path, file): one record per meta path
PutFile(a, file) ==
    [a EXCEPT !.meta = {f \in @ : MetaPath(f) # MetaPath(file)} \cup {file}]

\* self._tags.set(tag.ARCHIVE_UPDATED)
SetArchiveTag(a) == [a EXCEPT !.clock = @ + 1, !.tag = a.clock + 1]

\* ArchiveRepository.store(uri, checksum=checksum, key=key)
ArchiveStore(a, uri, key, checksum, fault) ==
    IF fault = "blob"
    THEN [a EXCEPT !.exc = TRUE]
    ELSE Only({IF fault = "meta"
               THEN [b EXCEPT !.exc = TRUE]
               ELSE IF fault = "tag"
               THEN [PutFile(b, MakeFile(uri, key, b.ret)) EXCEPT !.exc = TRUE]
               ELSE SetArchiveTag(PutFile(b, MakeFile(uri, key, b.ret)))
               : b \in {StoreBlob(a, uri, checksum)}})

\* ArchiveRepository.delete(file)
ArchiveDelete(a, file) == [a EXCEPT !.meta = {f \in @ : MetaPath(f) # MetaPath(file)}]

\* a crawl that skips nothing
ShouldSkip_never(a, uri, checksum, existing) == FALSE

\* CrawlOperation._should_skip(uri, checksum)
ShouldSkip(a, uri, checksum, existing) ==
    IF existing = "none" THEN FALSE
    ELSE IF existing = "overwrite" THEN FALSE
    ELSE IF checksum = None THEN FALSE
    ELSE IF existing = "skip_checksum" THEN ArchiveExists(a, checksum)
    ELSE /\ ArchiveExists(a, checksum)
         /\ \E file \in a.meta : file.checksum = checksum /\ file.key = uri

\* CrawlOperation.handle_crawl(uri, run)
HandleCrawl(a, uri, existing, is_local) ==
    Only({IF ShouldSkip(a, uri, checksum, existing)
          THEN a
          ELSE [ArchiveStore(a, uri, uri, checksum, "none") EXCEPT !.done = @ + 1]
          : checksum \in {IF is_local THEN Sha1(a.src[uri]) ELSE None}})

\* CrawlOperation.handle(run): the tasks from the ix-th key on
RECURSIVE CrawlFrom(_, _, _, _)
CrawlFrom(a, ix, existing, is_local) ==
    IF ix > Len(CrawlKeys) THEN a
    ELSE Only({CrawlFrom(b, ix + 1, existing, is_local)
               : b \in {HandleCrawl(a, CrawlKeys[ix], existing, is_local)}})

\* the archive before a call
ArCur == ar

\* the archive after a call that ended in r
ArApply(r, call) ==
    /\ ar' = [r EXCEPT !.n = @ + 1, !.ret = None, !.exc = FALSE, !.done = 0,
                       !.last = [kind |-> call.kind, key |-> call.key, given |-> call.given,
                                 fault |-> call.fault, existing |-> call.existing,
                                 is_local |-> call.is_local,
                                 exc |-> r.exc, ret |-> r.ret, done |-> r.done]]
    /\ UNCHANGED NotArchive

\* archive.store(uri, checksum=...)
ArStore ==
    \E uri \in SourcePaths, checksum \in Checksums \cup {None}, fault \in ArchiveFaults :
        /\ ar.n < MaxArchiveCalls
        /\ \E r \in {ArchiveStore(a, uri, InfoKey(uri), checksum, fault) : a \in {ArCur}} :
               ArApply(r, ArchiveCall("store", uri, checksum, fault))

\* archive.store_blob(uri, checksum)
ArStoreBlob ==
    \E uri \in SourcePaths, checksum \in Checksums \cup {None} :
        /\ ar.n < MaxArchiveCalls
        /\ \E r \in {StoreBlob(a, uri, checksum) : a \in {ArCur}} :
               ArApply(r, ArchiveCall("store_blob", uri, checksum, "none"))

\* archive.write_blob(fh, checksum) with a handle on a source file
ArWriteBlob ==
    \E uri \in SourcePaths, checksum \in Checksums \cup {None} :
        /\ ar.n < MaxArchiveCalls
        /\ \E r \in {WriteBlob(a, a.src[uri], checksum) : a \in {ArCur}} :
               ArApply(r, ArchiveCall("write_blob", uri, checksum, "none"))

\* archive.delete(file) for a file of the archive
ArDelete ==
    \E file \in ar.meta :
        /\ ar.n < MaxArchiveCalls
        /\ \E r \in {ArchiveDelete(a, file) : a \in {ArCur}} :
               ArApply(r, ArchiveCall("delete", file.key, file.checksum, "none"))

\* a crawl of the source runs to its end
ArCrawl ==
    \E existing \in HandleExistingMode, is_local \in BOOLEAN :
        /\ ar.n < MaxArchiveCalls
        /\ \E r \in {CrawlFrom(a, 1, existing, is_local) : a \in {ArCur}} :
               ArApply(r, CrawlCall(existing, is_local))

----------------------------------------------------------------------------
(* Destructive operations run by several processes on one dataset:          *)
(* EntityRepository.flush, ParquetStore.optimize, RecreateOperation.handle. *)
(* path.LOCK names the dataset-wide lock object; lk.lockfile is the process *)
(* that holds it (None: the object does not exist).                         *)

\* starts and ends of destructive operations in a behaviour
MaxLockCalls == 6

Procs == {1, 2}

LOCK == ".LOCK"

Destructive == {"flush", "optimize", "recreate"}

NoLockCall == [event |-> "init", proc |-> 0, op |-> "", held |-> FALSE]

NoLock == [lockfile |-> None, run |-> [p \in Procs |-> "idle"], last |-> NoLockCall,
           n |-> 0]

\* the processes that run a destructive operation
Running(l) == {p \in Procs : l.run[p] # "idle"}

\* entry of flush (entities.py 111-120), optimize (parquet.py 145) and recreate
\* (recreate.py 166-170): the operation starts; no lock object is read or written
EnterDestructive(l, p, op) ==
    [l EXCEPT !.run[p] = op,
              !.last = [event |-> "start", proc |-> p, op |-> op,
                        held |-> Running(l) \ {p} # {}],
              !.n = @ + 1]

\* the operation returns or raises: nothing is released
LeaveDestructive(l, p) ==
    [l EXCEPT !.run[p] = "idle",
              !.last = [event |-> "end", proc |-> p, op |-> l.run[p], held |-> FALSE],
              !.n = @ + 1]

NotLock == <<clock, tags, journal, txn, store, sver, fl, files, versions, last, q, res,
             df, ar, vs, rc, mp, rt, au, gc>>

\* a process calls a destructive operation
LockStart ==
    \E p \in Procs, op \in Destructive :
        /\ lk.n < MaxLockCalls
        /\ lk.run[p] = "idle"
        /\ lk' = EnterDestructive(lk, p, op)
        /\ UNCHANGED NotLock

\* the destructive operation of a process ends
LockEnd ==
    \E p \in Procs :
        /\ lk.n < MaxLockCalls
        /\ lk.run[p] # "idle"
        /\ lk' = LeaveDestructive(lk, p)
        /\ UNCHANGED NotLock

----------------------------------------------------------------------------
(* VersionStore / VersionedModelStore (storage/versions.py): make, get,     *)
(* delete, with the models that are stored.  A snapshot is an object of the *)
(* store at path.version(key); put overwrites the object at a path.         *)

\* calls of the version store in a behaviour
MaxVersionCalls == 4

\* the versioned paths: config.yml and index.json
VersionKeys == {CONFIG, INDEX}

\* the models that are stored (the contents of a pydantic model)
Models == {1, 2}

VersionFaults == {"none", "snapshot", "current"}

NoVersionCall == [kind |-> "init", key |-> "", data |-> None, fault |-> "none",
                  exc |-> FALSE, ret |-> None]

\* objs: the objects under versions/, path -> model; cur: the current copies;
\* made: per key the snapshots of the makes that returned, in order;
\* aborted: per key the makes that raised after they had put their snapshot
NoVersions == [objs |-> {}, cur |-> [k \in VersionKeys |-> None],
               tag |-> [k \in VersionKeys |-> None], clock |-> 0,
               made |-> [k \in VersionKeys |-> <<>>],
               aborted |-> [k \in VersionKeys |-> 0],
               last |-> NoVersionCall, n |-> 0]

\* mutant: the snapshot path has the resolution of its YYYY/MM directories
VersionPath_month(key, ts) == <<key, 0>>

\* path.version(name): versions/YYYY/MM/<ts>/name with ts = datetime.now()
VersionPath(key, ts) == <<key, ts>>

\* store.put(path, raw): the object at the path is written, or overwritten
StorePut(objs, path, raw) == {o \in objs : o.path # path} \cup {[path |-> path, raw |-> raw]}

\* the snapshots of key
VersionsOf(v, key) == {o \in v.objs : o.path[1] = key}

\* VersionedModelStore.make(key, data)
VersionedMake(v, key, data, fault) ==
    LET entry == v.clock + 1
        ts == v.clock + 2
        versioned_path == VersionPath(key, ts)
        call == [kind |-> "make", key |-> key, data |-> data, fault |-> fault,
                 exc |-> FALSE, ret |-> None]
        t == [v EXCEPT !.clock = ts, !.n = @ + 1]
    IN  IF fault = "snapshot"
        THEN [t EXCEPT !.last = [call EXCEPT !.exc = TRUE]]
        ELSE LET p == [t EXCEPT !.objs = StorePut(@, versioned_path, data)]
             IN  IF fault = "current"
                 THEN [p EXCEPT !.aborted[key] = @ + 1,
                                !.last = [call EXCEPT !.exc = TRUE]]
                 ELSE [p EXCEPT !.cur[key] = data,
                                !.tag[key] = entry,
                                !.made[key] = Append(@, versioned_path),
                                !.last = [call EXCEPT !.ret = versioned_path]]

\* VersionedModelStore.get(key): DoesNotExist when there is no current copy
VersionedGet(v, key) ==
    LET call == [kind |-> "get", key |-> key, data |-> None, fault |-> "none",
                 exc |-> v.cur[key] = None, ret |-> v.cur[key]]
    IN  [v EXCEPT !.last = call, !.n = @ + 1]

\* VersionedModelStore.delete(key): the current copy is deleted
VersionedDelete(v, key) ==
    [v EXCEPT !.cur[key] = None,
              !.last = [kind |-> "delete", key |-> key, data |-> None,
                        fault |-> "none", exc |-> FALSE, ret |-> None],
              !.n = @ + 1]

NotVersions == <<clock, tags, journal, txn, store, sver, fl, files, versions, last, q,
                 res, df, ar, lk, rc, mp, rt, au, gc>>

VsMake ==
    \E key \in VersionKeys, data \in Models, fault \in VersionFaults :
        /\ vs.n < MaxVersionCalls
        /\ vs' = VersionedMake(vs, key, data, fault)
        /\ UNCHANGED NotVersions

VsGet ==
    \E key \in VersionKeys :
        /\ vs.n < MaxVersionCalls
        /\ vs' = VersionedGet(vs, key)
        /\ UNCHANGED NotVersions

VsDelete ==
    \E key \in VersionKeys :
        /\ vs.n < MaxVersionCalls
        /\ vs.cur[key] # None
        /\ vs' = VersionedDelete(vs, key)
        /\ UNCHANGED NotVersions

----------------------------------------------------------------------------
(* RecreateOperation (operation/recreate.py) next to the two export         *)
(* operations whose files it imports.  The store and the export files are   *)
(* sets of statement ids; a tag is a timestamp, None when unset.            *)

\* calls of writers, export operations and recreate in a behaviour
MaxRecreateCalls == 4

\* core/conventions/tag.py: the tag keys that _get_source reads
TAG_ENTITIES_JSON == "exports/entities_json"
TAG_EXPORTS_STATEMENTS == "exports/statements"
OP_RECREATE == "operations/recreate"

RecreateTagKeys == {STATEMENTS_UPDATED, JOURNAL_UPDATED, ENTITIES_JSON, EXPORTS_STATEMENTS,
                    TAG_ENTITIES_JSON, TAG_EXPORTS_STATEMENTS, OP_RECREATE}

\* RecreateSource
AUTO == "auto"
RecreateSource == {AUTO, ENTITIES_JSON, EXPORTS_STATEMENTS}

\* the export files recreate can import
RecreateFiles == {ENTITIES_JSON, EXPORTS_STATEMENTS}

\* an export file: whether it exists, and the statements it holds
Absent == [exists |-> FALSE, rows |-> {}]
FileOf(rows) == [exists |-> TRUE, rows |-> rows]

NoRecreateCall == [kind |-> "init", arg |-> "", exc |-> FALSE, skipped |-> FALSE,
                   source |-> "", both |-> FALSE]

\* journal: the statements written and not flushed; crawled: the statements of
\* the archive's files of origin crawl; exported: per export file the time its
\* last export operation wrote it
NoRecreate == [store |-> {}, journal |-> {}, crawled |-> {},
               files |-> [p \in RecreateFiles |-> Absent],
               tags |-> [k \in RecreateTagKeys |-> None],
               exported |-> [p \in RecreateFiles |-> None],
               clock |-> 0, last |-> NoRecreateCall, n |-> 0]

\* entities.bulk(): a statement is written to the journal
RecreateBulk(r, id) ==
    [r EXCEPT !.journal = @ \cup {id},
              !.tags[JOURNAL_UPDATED] = r.clock + 1,
              !.clock = @ + 1,
              !.last = [NoRecreateCall EXCEPT !.kind = "bulk"],
              !.n = @ + 1]

\* CrawlOperation.handle_crawl: a file is archived with origin crawl and its
\* entities are added to the journal
RecreateCrawl(r, id) ==
    [r EXCEPT !.crawled = @ \cup {id},
              !.journal = @ \cup {id},
              !.tags[JOURNAL_UPDATED] = r.clock + 1,
              !.clock = @ + 1,
              !.last = [NoRecreateCall EXCEPT !.kind = "crawl"],
              !.n = @ + 1]

\* entities.bulk() and entities.flush(): a statement is written to the store
RecreateWrite(r, id) ==
    [r EXCEPT !.store = @ \cup r.journal \cup {id},
              !.journal = {},
              !.tags[JOURNAL_UPDATED] = r.clock + 1,
              !.tags[STATEMENTS_UPDATED] = r.clock + 2,
              !.clock = @ + 2,
              !.last = [NoRecreateCall EXCEPT !.kind = "write"],
              !.n = @ + 1]

\* DatasetJobOperation.run of ExportStatementsOperation / ExportEntitiesOperation:
\* the target, a path, is the tag that is touched
RecreateExport(r, target, force, fails) ==
    LET call == [NoRecreateCall EXCEPT !.kind = "export", !.arg = target]
        t == [r EXCEPT !.n = @ + 1]
    IN  IF ~force /\ TagStore_is_latest(r.tags, target, <<STATEMENTS_UPDATED, JOURNAL_UPDATED>>)
        THEN [t EXCEPT !.last = [call EXCEPT !.skipped = TRUE]]
        ELSE IF fails
        THEN [t EXCEPT !.clock = @ + 1, !.last = [call EXCEPT !.exc = TRUE]]
        ELSE [t EXCEPT !.store = @ \cup r.journal,
                       !.journal = {},
                       !.files[target] = FileOf(r.store \cup r.journal),
                       !.exported[target] = r.clock + 2,
                       !.tags[target] = r.clock + 1,
                       !.tags[STATEMENTS_UPDATED] = IF r.journal = {} THEN @ ELSE r.clock + 2,
                       !.clock = @ + 2,
                       !.last = call]

\* _get_source (recreate.py 51-87); "" when it raises RuntimeError
GetSource(r, source) ==
    LET entities_ts == r.tags[TAG_ENTITIES_JSON]
        statements_ts == r.tags[TAG_EXPORTS_STATEMENTS]
        entities_exists == r.files[ENTITIES_JSON] # Absent
        statements_exists == r.files[EXPORTS_STATEMENTS] # Absent
    IN  IF source # AUTO THEN source
        ELSE IF ~entities_exists /\ ~statements_exists THEN ""
        ELSE IF ~entities_exists THEN EXPORTS_STATEMENTS
        ELSE IF ~statements_exists THEN ENTITIES_JSON
        ELSE IF entities_ts = None /\ statements_ts = None THEN EXPORTS_STATEMENTS
        ELSE IF entities_ts = None THEN EXPORTS_STATEMENTS
        ELSE IF statements_ts = None THEN ENTITIES_JSON
        ELSE IF entities_ts >= statements_ts THEN ENTITIES_JSON
        ELSE EXPORTS_STATEMENTS

\* RecreateOperation.run: handle inside touch(OP_RECREATE): the source is
\* chosen, the store is destroyed (the journal is not), the export and the
\* entities of the archive's crawled files are added to the journal and the
\* journal is flushed; reading a file that does not exist raises after the
\* destroy, and the rows the writer had added are rolled back
Recreate(r, arg) ==
    LET source == GetSource(r, arg)
        call == [NoRecreateCall EXCEPT
                    !.kind = "recreate", !.arg = arg, !.source = source,
                    !.both = \A p \in RecreateFiles : r.files[p] # Absent]
        t == [r EXCEPT !.n = @ + 1, !.clock = @ + 1]
    IN  IF source = ""
        THEN [t EXCEPT !.last = [call EXCEPT !.exc = TRUE]]
        ELSE IF r.files[source] = Absent
        THEN [t EXCEPT !.store = {}, !.last = [call EXCEPT !.exc = TRUE]]
        ELSE [t EXCEPT !.store = r.journal \cup r.files[source].rows \cup r.crawled,
                       !.journal = {},
                       !.tags[JOURNAL_UPDATED] = r.clock + 2,
                       !.tags[STATEMENTS_UPDATED] = r.clock + 3,
                       !.tags[OP_RECREATE] = r.clock + 1,
                       !.clock = r.clock + 3,
                       !.last = call]

NotRecreate == <<clock, tags, journal, txn, store, sver, fl, files, versions, last, q,
                 res, df, ar, lk, vs, mp, rt, au, gc>>

RcWrite ==
    \E id \in Ids :
        /\ rc.n < MaxRecreateCalls
        /\ rc' = RecreateWrite(rc, id)
        /\ UNCHANGED NotRecreate

RcBulk ==
    \E id \in Ids :
        /\ rc.n < MaxRecreateCalls
        /\ rc' = RecreateBulk(rc, id)
        /\ UNCHANGED NotRecreate

RcCrawl ==
    \E id \in Ids :
        /\ rc.n < MaxRecreateCalls
        /\ rc' = RecreateCrawl(rc, id)
        /\ UNCHANGED NotRecreate

RcExport ==
    \E target \in RecreateFiles, force \in BOOLEAN, fails \in BOOLEAN :
        /\ rc.n < MaxRecreateCalls
        /\ rc' = RecreateExport(rc, target, force, fails)
        /\ UNCHANGED NotRecreate

RcRecreate ==
    \E arg \in RecreateSource :
        /\ rc.n < MaxRecreateCalls
        /\ rc' = Recreate(rc, arg)
        /\ UNCHANGED NotRecreate

----------------------------------------------------------------------------
(* Folder paths: DocumentRepository.make_paths *)

\* Folder entities of a dataset
NumFolders == 3
FolderIds == 1..NumFolders
\* iterations of the loop of one walk that are explored
MaxWalk == NumFolders + 1

\* the first pass: folder id -> parent id (the caption of a folder is its id);
\* a parent is None, a folder, or an id that no Folder entity has
FolderGraphs == UNION {[P -> {None} \cup FolderIds] : P \in SUBSET FolderIds}

Reverse(s) == [i \in 1..Len(s) |-> s[Len(s) + 1 - i]]

\* make_paths after its first pass over the folders g
StartPaths(g) ==
    [folders |-> g, todo |-> DOMAIN g, paths |-> <<>>, folder_id |-> None,
     current_id |-> None, seen |-> {}, parts |-> <<>>, steps |-> 0, pc |-> "for"]

NoPaths == StartPaths(<<>>)

\* `for folder_id in folders`: the next folder
PathsPick(m, f) ==
    [m EXCEPT !.todo = @ \ {f}, !.folder_id = f, !.current_id = f, !.seen = {},
              !.parts = <<>>, !.steps = 0, !.pc = "while"]

\* paths[folder_id] = "/".join(reversed(parts))
PathsPut(m) ==
    [m EXCEPT !.paths = [x \in DOMAIN m.paths \cup {m.folder_id} |->
                            IF x = m.folder_id THEN Reverse(m.parts) ELSE m.paths[x]],
              !.pc = "for"]

\* the loop body without the cycle detection
PathsWalk_noseen(m) ==
    IF m.current_id # None /\ m.current_id \in DOMAIN m.folders
    THEN [m EXCEPT !.seen = @ \cup {m.current_id},
                   !.parts = Append(@, m.current_id),
                   !.current_id = m.folders[m.current_id],
                   !.steps = @ + 1]
    ELSE PathsPut(m)

\* one test of the while condition and, when it holds, one run of the loop body
PathsWalk(m) ==
    IF m.current_id # None /\ m.current_id \in DOMAIN m.folders
    THEN IF m.current_id \in m.seen
         THEN PathsPut(m)
         ELSE [m EXCEPT !.seen = @ \cup {m.current_id},
                        !.parts = Append(@, m.current_id),
                        !.current_id = m.folders[m.current_id],
                        !.steps = @ + 1]
    ELSE PathsPut(m)

NotPaths == <<clock, tags, journal, txn, store, sver, fl, files, versions, last, q,
              res, df, ar, lk, vs, rc, rt, au, gc>>

MpPick ==
    \E f \in mp.todo :
        /\ mp.pc = "for"
        /\ mp' = PathsPick(mp, f)
        /\ UNCHANGED NotPaths

MpWalk ==
    /\ mp.pc = "while"
    /\ mp.steps < MaxWalk
    /\ mp' = PathsWalk(mp)
    /\ UNCHANGED NotPaths

MpReturn ==
    /\ mp.pc = "for"
    /\ mp.todo = {}
    /\ mp' = [mp EXCEPT !.pc = "return"]
    /\ UNCHANGED NotPaths

----------------------------------------------------------------------------
(* Round trip: bulk, flush, export_entities, stream *)

\* calls of a behaviour of the round trip
MaxRoundCalls == 4
\* entities of the round trip, two statements (property values) each
NumEntities == 2
RoundIds == 1..(2 * NumEntities)

NoRoundCall == [kind |-> "init", exc |-> FALSE]

NoRound == [journal |-> {}, store |-> {}, file |-> [exists |-> FALSE, lines |-> {}],
            written |-> {}, fresh |-> FALSE, read |-> {}, last |-> NoRoundCall, n |-> 0]

\* the flush hands the journal's rows to the parquet writer, which commits
\* them partition by partition
RECURSIVE MergeAll(_, _)
MergeAll(rows, sq) ==
    IF sq = <<>> THEN rows
    ELSE MergeAll(StoreMerge(rows, {r \in SeqSet(sq) : PartOf(r) = PartOf(Head(sq))}),
                  SelectSeq(sq, LAMBDA r : PartOf(r) # PartOf(Head(sq))))

\* mutant: the entity is assembled from the statements of one origin
Assemble_origin(rows) ==
    {[id |-> e,
      values |-> {r.id : r \in {x \in rows : /\ CanonicalOf(x.id) = e
                                             /\ \A y \in rows : CanonicalOf(y.id) = e
                                                   => x.origin <= y.origin}}] :
        e \in {CanonicalOf(r.id) : r \in rows}}

\* the store's query: the statements grouped by canonical id, one entity each,
\* with the values of all its statements
Assemble(rows) ==
    {[id |-> e, values |-> {r.id : r \in {x \in rows : CanonicalOf(x.id) = e}}] :
        e \in {CanonicalOf(r.id) : r \in rows}}

\* the values of a property in the order of the dict
RECURSIVE SortedValues(_)
SortedValues(S) ==
    IF S = {} THEN <<>>
    ELSE LET m == CHOOSE v \in S : \A o \in S : v <= o
         IN  <<m>> \o SortedValues(S \ {m})

\* smart_write_proxies: one line per entity, its dict (id and the values of
\* each property as a list)
WriteProxies(ents) == {[id |-> e.id, properties |-> SortedValues(e.values)] : e \in ents}

\* smart_read_proxies: the entity of each line
ReadProxies(lines) == {[id |-> l.id, values |-> SeqSet(l.properties)] : l \in lines}

\* with entities.bulk(origin) as bulk: bulk.add_entity(...), the statements I
RoundBulk(r, I, origin) ==
    [r EXCEPT !.journal = JournalUpsert(@, BatchOf(I, origin)),
              !.written = @ \cup I,
              !.fresh = FALSE,
              !.last = [kind |-> "bulk", exc |-> FALSE],
              !.n = @ + 1]

\* EntityRepository.flush
RoundFlushed(r) ==
    [r EXCEPT !.store = MergeAll(@, JournalFlushRows(r.journal)),
              !.journal = JournalRemove(@, SeqSet(JournalFlushRows(r.journal)))]

RoundFlush(r) ==
    [RoundFlushed(r) EXCEPT !.last = [kind |-> "flush", exc |-> FALSE], !.n = @ + 1]

\* export_entities: ensure_flush, then entities.query(), which flushes first,
\* written to entities.ftm.json
RoundExport(r) ==
    LET f == RoundFlushed(r)
    IN  [f EXCEPT !.file = [exists |-> TRUE, lines |-> WriteProxies(Assemble(f.store))],
                  !.fresh = TRUE,
                  !.last = [kind |-> "export", exc |-> FALSE],
                  !.n = @ + 1]

\* list(entities.stream()); a missing file raises
RoundStream(r) ==
    IF r.file.exists
    THEN [r EXCEPT !.read = ReadProxies(r.file.lines),
                   !.last = [kind |-> "stream", exc |-> FALSE],
                   !.n = @ + 1]
    ELSE [r EXCEPT !.last = [kind |-> "stream", exc |-> TRUE], !.n = @ + 1]

NotRound == <<clock, tags, journal, txn, store, sver, fl, files, versions, last, q,
              res, df, ar, lk, vs, rc, mp, au, gc>>

RtBulk ==
    \E I \in SUBSET RoundIds \ {{}}, origin \in Origins :
        /\ rt.n < MaxRoundCalls
        /\ rt' = RoundBulk(rt, I, origin)
        /\ UNCHANGED NotRound

RtFlush ==
    /\ rt.n < MaxRoundCalls
    /\ rt' = RoundFlush(rt)
    /\ UNCHANGED NotRound

RtExport ==
    /\ rt.n < MaxRoundCalls
    /\ rt' = RoundExport(rt)
    /\ UNCHANGED NotRound

RtStream ==
    /\ rt.n < MaxRoundCalls
    /\ rt' = RoundStream(rt)
    /\ UNCHANGED NotRound

----------------------------------------------------------------------------
(* Token authorization: TokenData.allows (api/auth.py) *)

\* longest request path and longest prefix of a token, in characters
MaxPathLen == 3
MaxPrefixLen == MaxPathLen - 1
\* strings are sequences of characters
PathChars == {"/", "a"}
PrefixChars == {"/", "a", "*", "?"}
Paths == UNION {[1..n -> PathChars] : n \in 0..MaxPathLen}
Prefixes == UNION {[1..n -> PrefixChars] : n \in 0..MaxPrefixLen}

\* the prefix lists of tokens: none, one or two prefixes
PrefixSets == {{}} \cup {{p1, p2} : p1, p2 \in Prefixes}

\* the methods a token names and the methods of requests
TokenMethods == {"*", "GET"}
RequestMethods == {"get", "GET", "post"}

\* str.upper
Upper(m) ==
    CASE m = "get" -> "GET"
      [] m = "post" -> "POST"
      [] OTHER -> m

\* str.startswith
StartsWith(s, p) == Len(p) <= Len(s) /\ SubSeq(s, 1, Len(p)) = p

\* fnmatch.fnmatch(name, pat): * matches any run of characters, ? any one
\* character, every other character itself; the whole name is matched
RECURSIVE Fnmatch(_, _)
Fnmatch(s, p) ==
    IF p = <<>> THEN s = <<>>
    ELSE IF Head(p) = "*"
         THEN Fnmatch(s, Tail(p)) \/ (s # <<>> /\ Fnmatch(Tail(s), p))
         ELSE /\ s # <<>>
              /\ Head(p) = "?" \/ Head(p) = Head(s)
              /\ Fnmatch(Tail(s), Tail(p))

In(c, s) == \E i \in DOMAIN s : s[i] = c

\* mutant: every prefix is a literal path prefix
MatchPrefix_literal(path, prefix) == StartsWith(path, prefix)

\* TokenData._match_prefix
MatchPrefix(path, prefix) ==
    IF In("*", prefix) \/ In("?", prefix)
    THEN Fnmatch(path, prefix)
    ELSE StartsWith(path, prefix)

\* TokenData.allows
Allows(token, method, path) ==
    IF "*" \notin token.methods /\ Upper(method) \notin token.methods
    THEN FALSE
    ELSE \E prefix \in token.prefixes : MatchPrefix(path, prefix)

NoAuth == [token |-> [methods |-> {}, prefixes |-> {}], method |-> "", path |-> <<>>,
           ret |-> FALSE, n |-> 0]

NotAuth == <<clock, tags, journal, txn, store, sver, fl, files, versions, last, q,
             res, df, ar, lk, vs, rc, mp, rt, gc>>

\* a request is checked against a token; allows keeps no state, a behaviour
\* holds one check
AuAllows ==
    /\ au.n = 0
    /\ \E methods \in SUBSET TokenMethods, prefixes \in PrefixSets,
          method \in RequestMethods, path \in Paths :
           au' = [token |-> [methods |-> methods, prefixes |-> prefixes],
                  method |-> method, path |-> path,
                  ret |-> Allows([methods |-> methods, prefixes |-> prefixes], method, path),
                  n |-> 1]
    /\ UNCHANGED NotAuth

----------------------------------------------------------------------------
(***************************************************************************)
(* ParquetStore.get_changes (storage/parquet.py 103-127) as the generator  *)
(* it is: the condition of its while loop calls load_cdf and reads the     *)
(* first batch of the reader that call returns; the body yields the rows   *)
(* of the batch.  How a reader cuts the change feed into batches is the    *)
(* delta library's: the first batch is any part of the feed.               *)
(***************************************************************************)

\* get_changes calls in a behaviour
MaxChangeCalls == 2

\* once: the change records yielded so far; twice: those yielded more than once
NoChanges == [pc |-> "idle", start |-> 0, end |-> 0, batch |-> {},
              once |-> {}, twice |-> {}, n |-> 0]

\* deltatable.load_cdf(starting_version=start or 1, ending_version=end): the
\* change records a reader of the range delivers
LoadCdf(d, start_version, end_version) ==
    UNION {d.log[v + 1] : v \in (IF start_version = 0 THEN 1 ELSE start_version)..end_version}

\* the first batches read_next_batch() can return for a new reader
FirstBatches(d, start_version, end_version) == SUBSET LoadCdf(d, start_version, end_version)

\* a call of get_changes(start_version, end_version): the generator is created
ChangesCall(g, start_version, end_version) ==
    [g EXCEPT !.pc = "while", !.start = start_version, !.end = end_version,
              !.batch = {}, !.once = {}, !.twice = {}, !.n = @ + 1]

\* the while condition: batch := load_cdf(...).read_next_batch(), a new reader
\* every time; an empty batch ends the loop
ChangesWhile(g, batch) ==
    [g EXCEPT !.pc = IF batch = {} THEN "return" ELSE "for", !.batch = batch]

\* read_next_batch() of a reader without batches raises StopIteration
ChangesStop(g) == [g EXCEPT !.pc = "raise", !.batch = {}]

\* the loop body: every row of the batch is yielded
ChangesFor(g) ==
    [g EXCEPT !.pc = "while",
              !.once = @ \cup g.batch,
              !.twice = @ \cup (g.once \cap g.batch)]

NotChanges == <<clock, tags, journal, txn, store, sver, fl, files, versions, last, q,
                res, df, ar, lk, vs, rc, mp, rt, au>>

GcCall ==
    /\ gc.pc \in {"idle", "return", "raise"}
    /\ gc.n < MaxChangeCalls
    /\ df.log # <<>>
    /\ \E end_version \in 0..ParquetVersion(df) :
           \E start_version \in 0..end_version :
               gc' = ChangesCall(gc, start_version, end_version)
    /\ UNCHANGED NotChanges

GcWhile ==
    /\ gc.pc = "while"
    /\ \E batch \in FirstBatches(df, gc.start, gc.end) : gc' = ChangesWhile(gc, batch)
    /\ UNCHANGED NotChanges

GcStop ==
    /\ gc.pc = "while"
    /\ LoadCdf(df, gc.start, gc.end) = {}
    /\ gc' = ChangesStop(gc)
    /\ UNCHANGED NotChanges

GcFor ==
    /\ gc.pc = "for"
    /\ gc' = ChangesFor(gc)
    /\ UNCHANGED NotChanges

----------------------------------------------------------------------------
(* Calls: the steps of the model *)

\* the I/O call of a top-level call that a fault is injected into is one of the
\* first MaxFault
MaxFault == 2
\* calls made by the caller of the export pipeline in a behaviour
MaxCalls == 3

NoCall == [kind |-> "init", op |-> "", force |-> FALSE, exc |-> FALSE, skipped |-> FALSE,
           handled |-> 0, entry |-> None, hf |-> NoHist, wrote |-> {}, had |-> {},
           early |-> {}, pending |-> {}, dec |-> {}, streak |-> 0, n |-> 0]

NoQuery == [key |-> "", deps |-> <<>>]
NoRes == [done |-> FALSE, store |-> FALSE, legacy |-> FALSE, core |-> FALSE]

\* the kinds of call the caller of the export pipeline makes
PipelineKinds == {"write", "op", "make"}

\* the state after a call that ended in r
Apply(r, kind, op, force) ==
    /\ clock' = r.clock
    /\ tags' = r.tags
    /\ journal' = r.journal
    /\ txn' = r.txn
    /\ store' = r.store
    /\ sver' = r.sver
    /\ fl' = r.fl
    /\ files' = r.files
    /\ versions' = r.versions
    /\ last' = [kind |-> kind, op |-> op, force |-> force, exc |-> r.exc,
                skipped |-> r.skipped, handled |-> r.handled, entry |-> r.entry,
                hf |-> r.hf, wrote |-> r.wrote, had |-> r.had,
                early |-> r.early, pending |-> r.pending, dec |-> r.dec,
                streak |-> IF kind = "make" /\ ~r.exc THEN last.streak + 1 ELSE 0,
                n |-> IF kind \in PipelineKinds THEN last.n + 1 ELSE last.n]
    /\ UNCHANGED <<q, res, df, ar, lk, vs, rc, mp, rt, au, gc>>

\* with entities.bulk(origin) as writer: ... ; may run while a flush is under way
BulkWrite ==
    \E b \in Batches, raised \in BOOLEAN :
        /\ txn < MaxTxn
        /\ raised => b = {}
        /\ \E r \in {BulkRun(c, b, raised) : c \in {Cur(0)}} :
               Apply(r, "bulk", "", FALSE)

\* with entities.bulk(origin) as writer: the body adds statements, may call
\* writer.flush() once, adds more statements and returns or raises
BulkScopeCall ==
    \E I1 \in SUBSET Ids, I2 \in SUBSET Ids, o \in Origins, raised \in BOOLEAN :
        /\ txn + (IF I1 = {} THEN 1 ELSE 2) <= MaxTxn
        /\ \E r \in {BulkScope(c, BatchOf(I1, o), BatchOf(I2, o), raised) : c \in {Cur(0)}} :
               Apply(r, "bulk", "", FALSE)

\* entities.flush() is called and runs to its end
FlushWhole ==
    \E f \in 0..1 :
        /\ clock < MaxClock
        /\ \E r \in {RepoFlush(c) : c \in {Cur(f)}} : Apply(r, "flush", "", FALSE)

\* entities.flush() is called
FlushCall ==
    /\ ~fl.active
    /\ clock < MaxClock
    /\ \E r \in {FlushBegin(c) : c \in {Cur(0)}} : Apply(r, "flush", "", FALSE)

\* the flush under way makes its next step; a fault may hit one of its I/O calls
FlushNext ==
    \E f \in 0..2 :
        /\ fl.active
        /\ \E r \in {FlushStep(c) : c \in {Cur(f)}} : Apply(r, "flush", "", FALSE)

\* what the caller of the pipeline writes in one bulk scope
PipelineBatches == {{}, {[id |-> 1, origin |-> 1]}}

\* the caller of the pipeline writes with entities.bulk()
PipelineWrite ==
    \E b \in PipelineBatches :
        /\ last.n < MaxCalls
        /\ \E r \in {BulkRun(c, b, FALSE) : c \in {Cur(0)}} :
               Apply(r, "write", "", FALSE)

\* an export operation is run
RunOp ==
    \E k \in Ops, force \in BOOLEAN, f \in 0..MaxFault,
       include \in {{}, Ops \ {"index"}} :
        /\ last.n < MaxCalls
        /\ k # "index" => include = {}
        /\ \E r \in {OpRun(c, k, force, include) : c \in {Cur(f)}} :
               Apply(r, "op", k, force)

\* make(dataset, force)
MakeCall ==
    \E force \in BOOLEAN, f \in 0..MaxFault :
        /\ last.n < MaxCalls
        /\ \E r \in {Make(c, force) : c \in {Cur(f)}} : Apply(r, "make", "", force)

Init ==
    /\ clock = 0
    /\ tags = [k \in TagKeys |-> None]
    /\ journal = {}
    /\ txn = 0
    /\ store = {}
    /\ sver = 0
    /\ fl = NoFlush
    /\ files = [p \in ExportPaths |-> None]
    /\ versions = {}
    /\ last = NoCall
    /\ q = NoQuery
    /\ res = NoRes
    /\ df = NoDiff(DIFFS_ENTITIES)
    /\ ar = NoArchive([p \in SourcePaths |-> 1])
    /\ lk = NoLock
    /\ vs = NoVersions
    /\ rc = NoRecreate
    /\ mp = NoPaths
    /\ rt = NoRound
    /\ au = NoAuth
    /\ gc = NoChanges

\* the export pipeline as its caller drives it: writes, operations, make
Next == PipelineWrite \/ RunOp \/ MakeCall

Spec == Init /\ [][Next]_vars

\* a flush in steps, with writers that commit between the steps
NextFlush == BulkWrite \/ FlushCall \/ FlushNext

SpecFlush == Init /\ [][NextFlush]_vars

\* bulk scopes with a writer.flush() inside, and flushes between the scopes
NextBulk == BulkScopeCall \/ FlushWhole

SpecBulk == Init /\ [][NextBulk]_vars

----------------------------------------------------------------------------
(* is_latest as a function of the tags: every query over three tag keys *)

QueryKeys == {EXPORTS_STATEMENTS, STATEMENTS_UPDATED, JOURNAL_UPDATED}

Queries == [key : {EXPORTS_STATEMENTS},
            deps : {<<>>, <<STATEMENTS_UPDATED>>, <<JOURNAL_UPDATED>>,
                    <<STATEMENTS_UPDATED, JOURNAL_UPDATED>>}]

InitTags ==
    /\ clock = 0
    /\ tags \in {tg \in [TagKeys -> 0..MaxTs] : \A k \in TagKeys \ QueryKeys : tg[k] = None}
    /\ journal = {}
    /\ txn = 0
    /\ store = {}
    /\ sver = 0
    /\ fl = NoFlush
    /\ files = [p \in ExportPaths |-> None]
    /\ versions = {}
    /\ last = NoCall
    /\ q \in Queries
    /\ res = NoRes
    /\ df = NoDiff(DIFFS_ENTITIES)
    /\ ar = NoArchive([p \in SourcePaths |-> 1])
    /\ lk = NoLock
    /\ vs = NoVersions
    /\ rc = NoRecreate
    /\ mp = NoPaths
    /\ rt = NoRound
    /\ au = NoAuth
    /\ gc = NoChanges

\* the query is put to each implementation
Eval ==
    /\ ~res.done
    /\ res' = [done |-> TRUE,
               store |-> TagStore_is_latest(tags, q.key, q.deps),
               legacy |-> Tags_is_latest(tags, q.key, q.deps),
               core |-> is_latest(tags, q.key, q.deps)]
    /\ UNCHANGED <<clock, tags, journal, txn, store, sver, fl, files, versions, last, q, df, ar, lk, vs, rc, mp, rt, au, gc>>

NextTags == Eval

SpecTags == InitTags /\ [][NextTags]_vars

\* the diff exporter with flushes, optimize runs and full exports between its calls
NextDiff == DiffFlush \/ DiffOptimize \/ DiffExportFull \/ DiffExport

InitDiff ==
    /\ clock = 0
    /\ tags = [k \in TagKeys |-> None]
    /\ journal = {}
    /\ txn = 0
    /\ store = {}
    /\ sver = 0
    /\ fl = NoFlush
    /\ files = [p \in ExportPaths |-> None]
    /\ versions = {}
    /\ last = NoCall
    /\ q = NoQuery
    /\ res = NoRes
    /\ df \in {NoDiff(repo) : repo \in Repos}
    /\ ar = NoArchive([p \in SourcePaths |-> 1])
    /\ lk = NoLock
    /\ vs = NoVersions
    /\ rc = NoRecreate
    /\ mp = NoPaths
    /\ rt = NoRound
    /\ au = NoAuth
    /\ gc = NoChanges

SpecDiff == InitDiff /\ [][NextDiff]_vars

\* the diff exporter with flushes that add an origin to a statement
NextDocDiff == DiffFlush \/ DiffFlushOrigin \/ DiffExportFull \/ DiffExport

SpecDocDiff == InitDiff /\ [][NextDocDiff]_vars

\* the archive with its callers: store, store_blob, write_blob, delete, crawl
NextArchive == ArStore \/ ArStoreBlob \/ ArWriteBlob \/ ArDelete \/ ArCrawl

InitArchive ==
    /\ clock = 0
    /\ tags = [k \in TagKeys |-> None]
    /\ journal = {}
    /\ txn = 0
    /\ store = {}
    /\ sver = 0
    /\ fl = NoFlush
    /\ files = [p \in ExportPaths |-> None]
    /\ versions = {}
    /\ last = NoCall
    /\ q = NoQuery
    /\ res = NoRes
    /\ df = NoDiff(DIFFS_ENTITIES)
    /\ ar \in {NoArchive(src) : src \in [SourcePaths -> Contents]}
    /\ lk = NoLock
    /\ vs = NoVersions
    /\ rc = NoRecreate
    /\ mp = NoPaths
    /\ rt = NoRound
    /\ au = NoAuth
    /\ gc = NoChanges

SpecArchive == InitArchive /\ [][NextArchive]_vars

\* processes that start and end destructive operations on one dataset
NextLock == LockStart \/ LockEnd

SpecLock == Init /\ [][NextLock]_vars

\* the version store with its callers: make, get, delete
NextVersions == VsMake \/ VsGet \/ VsDelete

SpecVersions == Init /\ [][NextVersions]_vars

\* writers, the two export operations and recreate
NextRecreate == RcWrite \/ RcBulk \/ RcCrawl \/ RcExport \/ RcRecreate

SpecRecreate == Init /\ [][NextRecreate]_vars

\* make_paths on every folder graph
NextPaths == MpPick \/ MpWalk \/ MpReturn

InitPaths ==
    /\ clock = 0
    /\ tags = [k \in TagKeys |-> None]
    /\ journal = {}
    /\ txn = 0
    /\ store = {}
    /\ sver = 0
    /\ fl = NoFlush
    /\ files = [p \in ExportPaths |-> None]
    /\ versions = {}
    /\ last = NoCall
    /\ q = NoQuery
    /\ res = NoRes
    /\ df = NoDiff(DIFFS_ENTITIES)
    /\ ar = NoArchive([p \in SourcePaths |-> 1])
    /\ lk = NoLock
    /\ vs = NoVersions
    /\ rc = NoRecreate
    /\ mp \in {StartPaths(g) : g \in FolderGraphs}
    /\ rt = NoRound
    /\ au = NoAuth
    /\ gc = NoChanges

SpecPaths == InitPaths /\ [][NextPaths]_vars

\* the call runs on: a step that can be taken is taken
SpecPathsLive == SpecPaths /\ WF_vars(NextPaths)

\* writers, flushes, entity exports and readers of the export
NextRound == RtBulk \/ RtFlush \/ RtExport \/ RtStream

SpecRound == Init /\ [][NextRound]_vars

\* requests checked against tokens
NextAuth == AuAllows

SpecAuth == Init /\ [][NextAuth]_vars

\* get_changes over a delta table that flushes commit to
NextChanges == DiffFlush \/ DiffFlushOrigin \/ GcCall \/ GcWhile \/ GcStop \/ GcFor

SpecChanges == InitDiff /\ [][NextChanges]_vars

\* a generator that is iterated to its end takes its next step
SpecChangesLive == SpecChanges /\ WF_vars(GcWhile \/ GcStop \/ GcFor)

----------------------------------------------------------------------------
(* Properties of EntityRepository.flush, checked under SpecFlush *)

FlushEnded == last.kind = "flush" /\ last.hf.state \in {"ok", "raised"}
FlushOk == last.kind = "flush" /\ last.hf.state = "ok"
FlushRaised == last.kind = "flush" /\ last.hf.state = "raised"

\* r is still to be flushed: the journal holds it, or a later write of its id
Deferred(r) == \E j \in journal : j.id = r.id /\ j.txn >= r.txn

DeletedIds == {r.id : r \in journal} \ {r.id : r \in journal'}

\* C2: a flush whose consumer raises before the journal's sequence is drained
\* leaves the journal as it was, and a step deletes journal rows only when it is
\* the step that ends a fully consumed sequence without an error.
C2_RollbackOnConsumerError ==
    [][/\ (fl.active /\ ~fl.drained /\ last'.kind = "flush"
               /\ last'.hf.state = "raised")
            => journal' = journal
       /\ DeletedIds # {}
            => (fl.active /\ ~fl.drained /\ fl.i > Len(fl.rows)
                    /\ last'.kind = "flush" /\ ~last'.exc)]_vars

\* C2, its case: the consumer raised after it had taken at least one row and
\* before the sequence was drained, and every row is still in the journal.
C2_Witness ==
    /\ FlushRaised
    /\ ~last.hf.drained
    /\ last.hf.total >= 1
    /\ last.hf.snap # {}
    /\ last.hf.snap \subseteq journal

\* C3 as stated: a flush that fails has committed all of its statements to the
\* parquet store or none of them.
C3_AllOrNothing ==
    FlushRaised => (last.hf.done = {} \/ last.hf.done = last.hf.snap)

\* C3, amended: a flush that fails has committed whole (bucket, origin)
\* partitions only: with a committed statement, every statement of the flush
\* in the same partition is committed; and if it failed before the journal's
\* sequence was drained the journal still holds every statement of the flush
\* (or a later write of the same id).
C3_WholePartitions ==
    FlushRaised =>
        /\ last.hf.done \subseteq last.hf.snap
        /\ \A r \in last.hf.done : \A o \in last.hf.snap :
               PartOf(o) = PartOf(r) => o \in last.hf.done
        /\ last.hf.done \subseteq store
        /\ ~last.hf.drained => \A r \in last.hf.snap : Deferred(r)

\* C3, its case: the flush failed after one partition was committed and before
\* the next was.
C3_Witness ==
    /\ FlushRaised
    /\ last.hf.done # {}
    /\ last.hf.done # last.hf.snap
    /\ \E r \in last.hf.snap \ last.hf.done : PartOf(r) \notin {PartOf(d) : d \in last.hf.done}

\* the statements of writer batch n that were committed while the flush ran
DuringOf(n) == {r \in last.hf.during : r.txn = n}

\* C4: when a flush ends, the statements of every writer batch that was
\* committed while it ran are all part of the flush or all still in the journal
\* for a later flush.
C4_SnapshotIsolation ==
    FlushEnded =>
        \A n \in {r.txn : r \in last.hf.during} :
            \/ DuringOf(n) \subseteq last.hf.snap
            \/ /\ DuringOf(n) \cap last.hf.snap = {}
               /\ \A r \in DuringOf(n) : Deferred(r)

\* C4, its case: a flush completed while a writer committed a new version of a
\* statement that the flush was moving.
C4_Witness ==
    /\ FlushOk
    /\ last.hf.during # {}
    /\ \E r \in last.hf.during : \E o \in last.hf.snap : o.id = r.id /\ o \in store

----------------------------------------------------------------------------
(* Properties of the export operations, checked under Spec *)

\* the snapshots of key under versions/
SnapshotsOf(snaps, key) == {v \in snaps : v[1] = key}

\* C5: an operation run without force whose target is newer than its
\* dependencies is skipped: its handle is not entered and no tag, export file
\* or versioned snapshot changes.
C5_SkipWhenLatest ==
    [][(/\ last'.kind = "op"
        /\ ~last'.force
        /\ Target(last'.op) # ""
        /\ Deps(last'.op) # <<>>
        /\ TagStore_is_latest(tags, Target(last'.op), Deps(last'.op)))
         => (/\ last'.skipped
             /\ last'.handled = 0
             /\ tags' = tags
             /\ files' = files
             /\ versions' = versions)]_vars

\* C5, its case: an operation whose export exists was run without force and
\* was skipped.
C5_Witness ==
    /\ last.kind = "op"
    /\ ~last.force
    /\ last.skipped
    /\ files[Target(last.op)] # None
    /\ store # {}

C10_TouchEntryTime ==
    [][(last'.kind = "op" /\ ~last'.skipped)
         => (/\ last'.entry = clock + 1
             /\ last'.handled = 1
             /\ ~last'.exc => tags'[Target(last'.op)] = last'.entry
             /\ last'.exc => tags'[Target(last'.op)] = tags[Target(last'.op)])]_vars

\* C10, its case: an operation's handle raised after the target had been
\* tagged by an earlier run, and the clock has moved on since.
C10_Witness ==
    /\ last.kind = "op"
    /\ last.exc
    /\ last.handled = 1
    /\ tags[Target(last.op)] # None
    /\ tags[Target(last.op)] < last.entry

\* C10, its other case: the handle returned after further clock reads and the
\* target's tag is the entry time.
C10_WitnessCommit ==
    /\ last.kind = "op"
    /\ ~last.exc
    /\ last.handled = 1
    /\ tags[Target(last.op)] = last.entry
    /\ last.entry < clock

----------------------------------------------------------------------------
(* Properties of is_latest, checked under SpecTags *)

SetDeps == {i \in 1..Len(q.deps) : tags[q.deps[i]] # None}

\* the tag of the key is set and strictly greater than every set dependency
NewerThanSetDeps ==
    /\ tags[q.key] # None
    /\ \A i \in SetDeps : tags[q.key] > tags[q.deps[i]]

\* C8: with at least one dependency tag set, TagStore.is_latest and the
\* is_latest of core/freshness.py answer true exactly when the key's tag is set
\* and strictly greater than the tag of every dependency that is set.
C8_StrictlyNewer ==
    (res.done /\ SetDeps # {}) =>
        /\ res.store <=> NewerThanSetDeps
        /\ res.core <=> NewerThanSetDeps

\* C8, its case: the answer is true with one dependency set and one unset.
C8_Witness ==
    /\ res.done
    /\ res.store
    /\ Len(q.deps) = 2
    /\ Cardinality(SetDeps) = 1

\* C8, the equal timestamp: the answer is false with a dependency as new as
\* the key.
C8_WitnessEqual ==
    /\ res.done
    /\ ~res.store
    /\ tags[q.key] # None
    /\ \E i \in SetDeps : tags[q.deps[i]] = tags[q.key]
    /\ \A i \in SetDeps : tags[q.deps[i]] <= tags[q.key]

\* C9: asked about a key with dependencies of which none has its tag set,
\* every is_latest implementation answers false.
C9_FalseWithoutDeps ==
    (res.done /\ q.deps # <<>> /\ SetDeps = {})
        => (~res.store /\ ~res.core /\ ~res.legacy)

\* C9, the part that holds: TagStore.is_latest and core/freshness.py answer
\* false when every dependency tag is unset.
C9_TagStoreFalseWithoutDeps ==
    (res.done /\ SetDeps = {}) => (~res.store /\ ~res.core)

----------------------------------------------------------------------------
(* Diff exporter *)

\* the step is an export_diff call
DiffCalled == df'.n # df.n

\* the entities (documents) the store holds for the repository of d
CurrentIds(d) ==
    {i \in EntityIds : d.ents[i] # 0 /\ (d.repo = DIFFS_DOCUMENTS => i \in Documents)}

\* the lines of a diff that carry entity i
LinesOf(lines, i) == {l \in lines : l.id = i}

\* C11: when no diff state exists and the parquet store is not empty, an
\* export_diff that returns a diff name has written a diff that holds every
\* entity (document) of the store exactly once, whatever was flushed before
\* or after the last full export.
C11_InitialDiffSelfContained ==
    [][(DiffCalled /\ df.state = NoVersion /\ CurrentIds(df) # {} /\ ~df'.last.exc)
        => /\ df'.last.ret # NoVersion
           /\ \A i \in CurrentIds(df) : Cardinality(LinesOf(df'.last.lines, i)) = 1]_vars

\* the entities with a change record in a commit of the versions lo..hi
ChangedIn(d, lo, hi) ==
    {i \in EntityIds : \E v \in lo..hi : v + 1 \in DOMAIN d.log /\ \E c \in d.log[v + 1] : c.id = i}

\* the step is an export_diff call that returned the name of an incremental diff
IncrementalDone ==
    /\ DiffCalled
    /\ df.state # NoVersion
    /\ ~df'.last.exc
    /\ df'.last.ret # NoVersion

\* C12: a successful incremental export_diff for store version b, made while
\* the diff state holds version v_prev, writes only entities that have a
\* statement change in a version of v_prev + 1 .. b; entities unchanged in that
\* range are not written.
C12_OnlyChangedWritten ==
    [][IncrementalDone
        => \A l \in df'.last.lines :
               l.id \in ChangedIn(df, df.state + 1, ParquetVersion(df))]_vars

\* an incremental diff was written that leaves out an entity of the store which
\* did not change in the diffed versions
C12_Witness ==
    /\ ~df.last.exc /\ ~df.last.initial /\ df.last.ret # NoVersion
    /\ df.last.lines # {}
    /\ \E i \in CurrentIds(df) :
           /\ i \notin ChangedIn(df, df.last.prev + 1, df.last.cur)
           /\ LinesOf(df.last.lines, i) = {}

\* C13: the store versions of successively produced diffs are strictly
\* increasing: export_diff writes no diff file for a version less than or equal
\* to the version of the persisted diff state, a diff name it returns is that of
\* a newer version and becomes the diff state, and when the store version has
\* not advanced it returns nothing and writes no file.
C13_StrictlyIncreasing ==
    [][DiffCalled
        => /\ \A f \in df'.diffs \ df.diffs : f.v > df.state
           /\ df'.state >= df.state
           /\ df'.last.ret # NoVersion => (df'.last.ret > df.state /\ df'.state = df'.last.ret)
           /\ (df.state # NoVersion /\ ParquetVersion(df) <= df.state)
                 => (df'.last.ret = NoVersion /\ df'.diffs = df.diffs /\ df'.state = df.state)]_vars

\* two diffs were produced one after the other, the second for a newer version
C13_Witness ==
    /\ ~df.last.exc /\ df.last.ret # NoVersion /\ df.last.prev # NoVersion
    /\ \E f, g \in df.diffs :
           /\ f.v = df.last.prev /\ g.v = df.last.ret /\ f.v < g.v
           /\ f.lines # {} /\ g.lines # {}

\* export_diff was called again with the store version not advanced
C13_WitnessNotAdvanced ==
    /\ ~df.last.exc /\ df.last.ret = NoVersion
    /\ df.last.prev # NoVersion /\ df.last.prev = df.last.cur
    /\ df.diffs # {}

\* the operation the envelope of entity i is to carry in the diff of the
\* versions after prev: an entity the store held before is modified
EnvelopeOp(d, i, prev) == IF i \in ChangedIn(d, 0, prev) THEN "MOD" ELSE "ADD"

\* C14: in an entity diff an entity that existed and was modified in the diffed
\* versions is emitted as MOD and a newly created entity as ADD (a removed
\* entity as DEL).
C14_EnvelopeOps ==
    [][(IncrementalDone /\ df.repo = DIFFS_ENTITIES)
        => \A l \in df'.last.lines : l.op = EnvelopeOp(df, l.id, df.state)]_vars

\* what the next export_diff does when nothing fails: the versions it diffs,
\* whether it writes the initial diff, the lines it writes, what it returns
NextRun(d) ==
    LET r == ExportDiff(d, d.repo, "none").last
    IN  [prev |-> r.prev, cur |-> r.cur, initial |-> r.initial, exc |-> r.exc,
         ret |-> r.ret, lines |-> r.lines]

\* C15: an export_diff that fails before it completes leaves the persisted
\* diff state unchanged, and the next export_diff covers the same versions and
\* writes the same lines as if the failed call had not been made.
C15_FailureKeepsState ==
    [][(DiffCalled /\ df'.last.exc)
        => /\ df'.state = df.state
           /\ NextRun(df') = NextRun(df)]_vars

\* an incremental export_diff failed after it had written its file, and the
\* next run has the same changes to write
C15_Witness ==
    /\ df.last.exc /\ df.last.fault = "state" /\ df.last.wrote
    /\ df.last.prev # NoVersion
    /\ NextRun(df).prev = df.last.prev
    /\ NextRun(df).lines # {}

----------------------------------------------------------------------------
(* Blob archive *)

\* C16: after any store, store_blob and write_blob calls, calls with a
\* caller-supplied checksum included, exists(c) implies that the blob stored
\* under c is a byte sequence whose SHA-1 is c.
C16_BlobMatchesChecksum ==
    \A c \in Checksums : ArchiveExists(ar, c) => Sha1(ar.blobs[c]) = c

\* the same for the blobs written under a checksum the archive computed
C16_ComputedChecksumMatches ==
    \A c \in Checksums \ ar.supplied : ArchiveExists(ar, c) => Sha1(ar.blobs[c]) = c

\* the step is a call of the archive
ArchiveCalled == ar'.n # ar.n

\* the metadata records of the archive for checksum c
FilesOf(a, c) == {f \in a.meta : f.checksum = c}

\* the step is a store(uri) without a checksum that returned a file
StoredPlain(uri) ==
    /\ ArchiveCalled
    /\ ar'.last.kind = "store" /\ ar'.last.key = uri
    /\ ar'.last.given = None /\ ~ar'.last.exc

\* C17: storing the same content from k distinct source paths yields one
\* blob for its checksum and k metadata records with pairwise different
\* file_id and the same checksum: a store of a source path adds a record to
\* those of the other source paths with that content and writes the blob only
\* when there is none.
C17_OneBlobManyRecords ==
    [][\A uri \in SourcePaths :
         StoredPlain(uri)
           => LET c == Sha1(ar.src[uri])
                  others == {f \in FilesOf(ar, c) : f.uri # uri}
              IN  /\ ar'.last.ret = c
                  /\ ArchiveExists(ar', c)
                  /\ ArchiveExists(ar, c) => ar'.writes = ar.writes
                  /\ others \subseteq FilesOf(ar', c)
                  /\ Cardinality(FilesOf(ar', c)) = Cardinality(others) + 1
                  /\ \A f, g \in FilesOf(ar', c) : f.uri # g.uri => f.id # g.id]_vars

\* the same with one record for each key (file name) in place of each source path
C17_OneRecordPerKey ==
    [][\A uri \in SourcePaths :
         StoredPlain(uri)
           => LET c == Sha1(ar.src[uri])
                  others == {f \in FilesOf(ar, c) : f.key # InfoKey(uri)}
              IN  /\ ar'.last.ret = c
                  /\ ArchiveExists(ar', c)
                  /\ ArchiveExists(ar, c) => ar'.writes = ar.writes
                  /\ others \subseteq FilesOf(ar', c)
                  /\ Cardinality(FilesOf(ar', c)) = Cardinality(others) + 1
                  /\ \A f, g \in FilesOf(ar', c) : f.key # g.key => f.id # g.id]_vars

\* C18: blobs are written once: no archive call rewrites or removes a blob
\* that exists, storing content whose blob exists writes no blob, and delete
\* removes the metadata record of its file and nothing else.
C18_WriteOnce ==
    [][ArchiveCalled
        => /\ \A c \in Checksums :
                 ArchiveExists(ar, c)
                   => (ar'.blobs[c] = ar.blobs[c] /\ ar'.writes[c] = ar.writes[c])
           /\ ar'.last.kind = "delete"
                 => /\ ar'.blobs = ar.blobs
                    /\ ar'.tag = ar.tag
                    /\ \E file \in ar.meta : ar'.meta = ar.meta \ {file}]_vars

\* the same content was stored a second time: one write of the blob, and a
\* metadata record was deleted with the blob left in place
C18_Witness ==
    /\ ar.last.kind = "store" /\ ~ar.last.exc /\ ar.n = 2
    /\ ar.writes[ar.last.ret] = 1
    /\ Cardinality(FilesOf(ar, ar.last.ret)) = 2

C18_WitnessDelete ==
    /\ ar.last.kind = "delete"
    /\ ar.meta = {}
    /\ ArchiveExists(ar, ar.last.given)

\* C19: store writes the metadata record only after the blob is committed: at
\* every point, a metadata record for checksum c implies that the blob for c
\* exists.
C19_MetadataImpliesBlob ==
    \A f \in ar.meta : ArchiveExists(ar, f.checksum)

\* the same for store calls that are not handed a checksum, aborted ones included
C19_BlobBeforeMetadata ==
    [][(ArchiveCalled /\ ar'.last.kind \in {"store", "crawl"} /\ ar'.last.given = None)
        => \A f \in ar'.meta \ ar.meta : ArchiveExists(ar', f.checksum)]_vars

\* the step is a crawl that follows a completed crawl of the same source
Recrawled ==
    /\ ArchiveCalled
    /\ ar.last.kind = "crawl"
    /\ ar'.last.kind = "crawl"

\* C20 as stated: re-crawling the same source after a completed crawl changes
\* no blob content but does advance the archive/last_updated tag.
C20_RecrawlAdvancesTag ==
    [][Recrawled => (ar'.blobs = ar.blobs /\ ar'.tag > ar.tag)]_vars

\* C20: re-crawling the same source after a completed crawl changes no blob
\* content; it advances archive/last_updated exactly when it stores a file
\* again, which a crawl of a local source with existing = skip_checksum never
\* does, nor one with existing = skip_path after a crawl that stored every
\* file; a crawl with existing = overwrite or none, or of a remote source,
\* stores every file again.
C20_RecrawlAdvancesTagWhenStoring ==
    [][Recrawled
        => /\ ar'.blobs = ar.blobs
           /\ ar'.tag >= ar.tag
           /\ ar'.tag > ar.tag <=> ar'.last.done > 0
           /\ (ar'.last.is_local /\ ar'.last.existing = "skip_checksum") => ar'.last.done = 0
           /\ (ar'.last.is_local /\ ar'.last.existing = "skip_path"
                 /\ ar.last.done = Len(CrawlKeys)) => ar'.last.done = 0
           /\ (~ar'.last.is_local \/ ar'.last.existing \in {"overwrite", "none"})
                 => ar'.last.done = Len(CrawlKeys)]_vars

\* a crawl stored every file and the crawl after it skipped every file
C20_Witness ==
    /\ ar.last.kind = "crawl" /\ ar.n = 2
    /\ ar.last.done = 0
    /\ ar.tag # None
    /\ \A uri \in SourcePaths : \E f \in ar.meta : f.key = uri
----------------------------------------------------------------------------
(* Concurrency of destructive operations, checked under SpecLock *)

\* C21: a destructive operation (flush, optimize, recreate) that is started
\* while another process runs one, and so holds the dataset-wide lock, does
\* not start: it fails with a Busy error
C21_BusyWhenHeld ==
    lk.last.held => lk.last.event = "busy"

\* C21, as mutual exclusion: at most one process runs a destructive operation
C21_OneDestructiveAtATime ==
    Cardinality(Running(lk)) <= 1

----------------------------------------------------------------------------
(* Properties of the journal, checked under SpecFlush *)

\* the rows of the journal j that carry the statement id
JournalRowsOf(j, id) == {r \in j : r.id = id}

\* a journal writer has committed its batch in this step
BulkCommitted == last'.kind = "bulk" /\ ~last'.exc /\ txn' # txn

\* a flush takes its rows from the journal in this step
FlushStarted == ~fl.active /\ fl'.active

\* C22: the journal holds at most one row per statement id; a write of an id
\* the journal holds replaces the row (the row is then the one written last,
\* the rows of the other ids stay), and the next flush yields the rows of the
\* journal, so for every id the version written last
C22_JournalUpsert ==
    [][/\ \A id \in Ids : Cardinality(JournalRowsOf(journal', id)) <= 1
       /\ BulkCommitted
             => /\ \A w \in last'.wrote : JournalRowsOf(journal', w.id) = {w}
                /\ \A r \in journal \ last'.had : r \in journal'
                /\ \A r \in last'.had : r \notin last'.wrote => r \notin journal'
       /\ FlushStarted
             => /\ SeqSet(fl'.rows) = journal
                /\ Len(fl'.rows) = Cardinality(journal)]_vars

\* C22, its case: a writer has replaced a row of the journal by a row of the
\* same id with another origin
C22_Witness ==
    /\ last.kind = "bulk" /\ ~last.exc
    /\ \E h \in last.had, w \in last.wrote :
          h.id = w.id /\ h.origin # w.origin /\ h \notin journal /\ w \in journal

\* the rows are in non-decreasing order of (bucket, origin, canonical_id, id)
Sorted(rows) ==
    \A i, j \in 1..Len(rows) : i < j => ~KeyLess(SortKey(rows[j]), SortKey(rows[i]))

FlushDrainedAlone == FlushEnded /\ last.hf.drained /\ last.hf.during = {}

\* C24: after a flush that drained the journal's sequence without error, with
\* no write in between, the journal's count is zero, and a flush that follows
\* at once finds no rows: it returns 0 and commits nothing to the store
C24_EmptyAfterFlush ==
    [][FlushDrainedAlone
          => /\ JournalCount(journal) = 0
             /\ last'.kind = "flush"
                   => /\ last'.hf.state = "empty"
                      /\ ~fl'.active
                      /\ store' = store /\ sver' = sver /\ journal' = journal]_vars

\* C24, its case: a flush of a non-empty journal has ended without a write
\* while it ran, and the journal is empty
C24_Witness ==
    /\ FlushOk /\ last.hf.drained /\ last.hf.during = {}
    /\ last.hf.snap # {}
    /\ last.hf.snap \subseteq store
    /\ JournalCount(journal) = 0

\* C24, its case: a flush was called after a flush had moved the rows of the
\* only writer, and it found the journal empty
C24_WitnessSecondFlush ==
    /\ last.kind = "flush" /\ last.hf.state = "empty"
    /\ txn = 1 /\ sver >= 1 /\ store # {}

----------------------------------------------------------------------------
(* Properties of the journal writer scope, checked under SpecBulk *)

\* the last step was a bulk scope, left normally or through an exception
ScopeLeft == last'.kind = "bulk" /\ txn' # txn

\* the journal after the rows are written over it
Over(j, rows) == {r \in j : \A w \in rows : w.id # r.id} \cup rows

\* C25: when a journal writer scope is left normally the journal holds every
\* statement added in it (those committed by a writer.flush() inside the scope
\* and those of the open batch, the later write of an id over the earlier);
\* when it is left through an exception the open batch is discarded and the
\* statements committed by the earlier writer.flush() stay in the journal
C25_CommitOrRollback ==
    [][ScopeLeft
          => /\ ~last'.exc
                   => journal' = Over(Over(journal, last'.early), last'.pending)
             /\ last'.exc
                   => journal' = Over(journal, last'.early)
             /\ tags'[JOURNAL_UPDATED] = clock' /\ clock' > clock]_vars

\* C25, its case: a scope was left through an exception after a writer.flush()
\* inside it; the flushed statement is in the journal and the statement of the
\* open batch, which has another id, is not
C25_Witness ==
    /\ last.kind = "bulk" /\ last.exc
    /\ last.early # {} /\ last.early \subseteq journal
    /\ \E p \in last.pending :
          /\ \A e \in last.early : e.id # p.id
          /\ \A r \in journal : r.id # p.id

\* C25, its case: a scope was left normally and both batches are in the journal
C25_WitnessCommit ==
    /\ last.kind = "bulk" /\ ~last.exc
    /\ last.early # {} /\ last.pending # {}
    /\ last.pending \subseteq journal
    /\ \E e \in last.early : e \in journal

----------------------------------------------------------------------------
(* Properties of ensure_flush and of the flush tags *)

\* journal/last_flushed is set and newer than journal/last_updated, which is set
FlushedIsLatest ==
    /\ tags[JOURNAL_FLUSHED] # None
    /\ tags[JOURNAL_UPDATED] # None
    /\ tags[JOURNAL_FLUSHED] > tags[JOURNAL_UPDATED]

\* the export operations whose handle calls ensure_flush and no other flush
FlushEnsuring == {"statements", "documents", "statistics"}

\* the step ran the handle of such an operation
EnsureFlushRan == last'.kind = "op" /\ last'.op \in FlushEnsuring /\ last'.handled = 1

\* C26: ensure_flush calls EntityRepository.flush() exactly when
\* journal/last_flushed is not the latest relative to journal/last_updated;
\* otherwise it does nothing: journal, store and the flush tags stay as they are
C26_EnsureFlush ==
    [][EnsureFlushRan
          => /\ (last'.hf.state = "none") <=> FlushedIsLatest
             /\ FlushedIsLatest
                   => /\ journal' = journal /\ store' = store /\ sver' = sver
                      /\ tags'[JOURNAL_FLUSHED] = tags[JOURNAL_FLUSHED]
                      /\ tags'[STATEMENTS_UPDATED] = tags[STATEMENTS_UPDATED]]_vars

\* C26, its case: an export ran its handle without a flush, the journal having
\* been written and flushed before
C26_Witness ==
    /\ last.kind = "op" /\ last.op \in FlushEnsuring /\ last.handled = 1
    /\ last.hf.state = "none" /\ ~last.exc
    /\ store # {}
    /\ tags[JOURNAL_FLUSHED] > tags[JOURNAL_UPDATED]

\* C26, its case: an export flushed a journal that had been written and not
\* flushed
C26_WitnessFlush ==
    /\ last.kind = "op" /\ last.op \in FlushEnsuring /\ last.handled = 1
    /\ last.hf.state = "ok" /\ ~last.exc
    /\ last.hf.snap # {} /\ last.hf.snap \subseteq store

\* the tags a flush maintains
FlushTags == {JOURNAL_FLUSHED, STATEMENTS_UPDATED}

\* EntityRepository.flush() returns in this step, without an exception
FlushReturned ==
    /\ last'.kind = "flush" /\ last'.hf.state \in {"ok", "empty"}
    /\ ~fl'.active
    /\ fl.active \/ last'.hf.state = "empty"

\* C27 as stated: every flush that returns successfully sets journal/last_flushed
\* and statements/last_updated, i.e. writes each with a new timestamp
C27_FlushSetsBothTags ==
    [][FlushReturned => \A k \in FlushTags : tags'[k] # None /\ tags'[k] > tags[k]]_vars

\* C27, amended: after every flush that returns successfully both tags are
\* set.  A flush that found rows in the journal writes both: journal/last_flushed
\* with the time it started, statements/last_updated with the time it ended.
\* A flush that found the journal empty writes only the tags that are not set
\* and leaves a tag that is set as it is
C27_FlushLeavesTagsSet ==
    [][FlushReturned
          => /\ \A k \in FlushTags : tags'[k] # None
             /\ last'.hf.state = "ok"
                   => /\ tags'[JOURNAL_FLUSHED] = fl.now
                      /\ tags'[STATEMENTS_UPDATED] = clock'
                      /\ \A k \in FlushTags : tags'[k] > tags[k]
                      /\ tags'[JOURNAL_FLUSHED] < tags'[STATEMENTS_UPDATED]
             /\ last'.hf.state = "empty"
                   => \A k \in FlushTags :
                         /\ tags[k] # None => tags'[k] = tags[k]
                         /\ tags[k] = None => tags'[k] > clock]_vars

\* C27, its case: a flush has moved rows to the store and returned, and both
\* tags are set
C27_Witness ==
    /\ FlushOk /\ last.hf.snap # {}
    /\ tags[JOURNAL_FLUSHED] # None
    /\ tags[STATEMENTS_UPDATED] = clock

\* C27, its case: a flush of an empty journal has returned after an earlier
\* flush, and the tags are those of the earlier flush
C27_WitnessEmpty ==
    /\ last.kind = "flush" /\ last.hf.state = "empty"
    /\ sver >= 1
    /\ tags[JOURNAL_FLUSHED] < tags[STATEMENTS_UPDATED]
    /\ tags[STATEMENTS_UPDATED] < clock

----------------------------------------------------------------------------
(* Properties of the version store, checked under SpecVersions *)

\* a make of key with the model data returns in this step
MadeOk(key, data) ==
    /\ vs'.n # vs.n
    /\ vs'.last.kind = "make" /\ ~vs'.last.exc
    /\ vs'.last.key = key /\ vs'.last.data = data

\* C28: every make(path, model) that returns writes the current copy and adds
\* one snapshot under a new path, and no step overwrites or removes a
\* snapshot; so after n makes of a path that returned, n different snapshots
\* of the path exist that hold the models of these makes in order (next to the
\* snapshots of makes that failed after their snapshot was put), and get(path)
\* returns the model of the last make if the path was not deleted since
C28_KeepForever ==
    [][/\ vs.objs \subseteq vs'.objs
       /\ \A key \in VersionKeys, data \in Models :
             MadeOk(key, data)
                => /\ vs'.cur[key] = data
                   /\ \E o \in vs'.objs \ vs.objs :
                         /\ vs'.objs = vs.objs \cup {o}
                         /\ o.path = vs'.last.ret /\ o.path[1] = key /\ o.raw = data
                         /\ \A e \in vs.objs : e.path # o.path
                   /\ \A k \in VersionKeys \ {key} : vs'.cur[k] = vs.cur[k]
       /\ \A key \in VersionKeys :
             /\ Cardinality(VersionsOf(vs', key))
                   = Len(vs'.made[key]) + vs'.aborted[key]
             /\ Cardinality({vs'.made[key][i] : i \in 1..Len(vs'.made[key])})
                   = Len(vs'.made[key])
             /\ (vs'.n # vs.n /\ vs'.last.kind = "get" /\ vs'.last.key = key
                   /\ vs.last.kind = "make" /\ vs.last.key = key /\ ~vs.last.exc)
                   => ~vs'.last.exc /\ vs'.last.ret = vs.last.data]_vars

\* C28, its case: three makes of one path have returned with different models,
\* three snapshots of the path exist and the current copy is the last model
C28_Witness ==
    /\ vs.last.kind = "make" /\ ~vs.last.exc
    /\ Len(vs.made[INDEX]) = 3
    /\ Cardinality(VersionsOf(vs, INDEX)) = 3
    /\ {o.raw : o \in VersionsOf(vs, INDEX)} = Models
    /\ vs.cur[INDEX] = vs.last.data

\* C28, its case: get after two makes of a path returns the model of the second
C28_WitnessGet ==
    /\ vs.last.kind = "get" /\ ~vs.last.exc
    /\ Len(vs.made[vs.last.key]) = 2
    /\ \E a, b \in VersionsOf(vs, vs.last.key) :
          a.path[2] < b.path[2] /\ a.raw # b.raw /\ vs.last.ret = b.raw

----------------------------------------------------------------------------
(* Properties of RecreateOperation, checked under SpecRecreate *)

\* the export file that an export operation wrote last
LatestExport(r) ==
    IF r.exported[ENTITIES_JSON] > r.exported[EXPORTS_STATEMENTS]
    THEN ENTITIES_JSON ELSE EXPORTS_STATEMENTS

\* the last call was a recreate with automatic source selection that found
\* both export files, each written by an export operation
RecreatedAuto ==
    /\ rc.last.kind = "recreate" /\ rc.last.arg = AUTO /\ rc.last.both
    /\ \A p \in RecreateFiles : rc.exported[p] # None

\* C29: with automatic source selection and both export files present,
\* recreate imports the file that was exported most recently
C29_AutoPicksLatestExport ==
    RecreatedAuto => rc.last.source = LatestExport(rc)

\* what the code does instead: with both files present the automatic
\* selection is always statements.csv, and the tags it reads are never set
C29_AutoPicksStatements ==
    /\ RecreatedAuto => rc.last.source = EXPORTS_STATEMENTS
    /\ rc.tags[TAG_ENTITIES_JSON] = None /\ rc.tags[TAG_EXPORTS_STATEMENTS] = None

----------------------------------------------------------------------------
(* Document diffs and origins, checked under SpecDocDiff *)

\* the step is a document export_diff that returned the name of an incremental diff
DocumentDiffDone == IncrementalDone /\ df.repo = DIFFS_DOCUMENTS

\* the change records of entity i in the commits of the versions lo..hi
RecordsIn(d, i, lo, hi) ==
    UNION {{c \in d.log[v + 1] : c.id = i} : v \in {x \in lo..hi : x + 1 \in DOMAIN d.log}}

\* C30: an incremental document diff holds only documents (Document schema,
\* not Folder) whose contentHash changed in the diffed versions; a document
\* whose contentHash statement was only written again with the same value for
\* a new origin is not in the diff
C30_ContentHashChangesOnly ==
    [][DocumentDiffDone
          => \A l \in df'.last.lines :
                /\ l.id \in Documents
                /\ \E c \in RecordsIn(df, l.id, df.state + 1, ParquetVersion(df)) :
                      c.hash /\ ~c.same]_vars

\* what the code does: the diff holds the documents with a contentHash record
\* of type insert or update_postimage in the diffed versions, the value
\* changed or not
C30_ContentHashRecordsOnly ==
    [][DocumentDiffDone
          => \A l \in df'.last.lines :
                /\ l.id \in Documents
                /\ \E c \in RecordsIn(df, l.id, df.state + 1, ParquetVersion(df)) :
                      c.hash /\ c.type \in {"insert", "update_postimage"}]_vars

----------------------------------------------------------------------------
(* Folder paths, checked under SpecPathsLive *)

\* the folders on the parent chain of f, f included
RECURSIVE ChainOf(_, _, _)
ChainOf(g, f, acc) ==
    IF f = None \/ f \notin DOMAIN g \/ f \in acc THEN acc
    ELSE ChainOf(g, g[f], acc \cup {f})

\* the parent chain of f comes back to f
InCycle(g, f) == f \in DOMAIN g /\ g[f] # None /\ f \in ChainOf(g, g[f], {})

NoRepeat(s) == \A i, j \in DOMAIN s : s[i] = s[j] => i = j

\* a walk takes each folder at most once
WalkedOnce ==
    /\ mp.steps <= Cardinality(DOMAIN mp.folders)
    /\ mp.steps = Len(mp.parts)
    /\ NoRepeat(mp.parts)
    /\ \A f \in DOMAIN mp.paths : NoRepeat(mp.paths[f])

PathsReturned ==
    /\ mp.pc = "return"
    /\ DOMAIN mp.paths = DOMAIN mp.folders
    /\ \A f \in DOMAIN mp.paths :
          /\ Len(mp.paths[f]) >= 1
          /\ mp.paths[f][Len(mp.paths[f])] = f
          /\ {mp.paths[f][i] : i \in DOMAIN mp.paths[f]} = ChainOf(mp.folders, f, {})

\* C31: make_paths returns for every folder graph, graphs with a cycle or a
\* self-loop of parent references included; a walk up the parent chain takes
\* each folder at most once, and every folder gets a path
C31_MakePathsTerminates == [](WalkedOnce) /\ <>(PathsReturned)

\* make_paths returned on a graph where a folder is its own parent and two
\* other folders are each other's parent
C31_Witness ==
    /\ mp.pc = "return"
    /\ \E f \in DOMAIN mp.folders : mp.folders[f] = f
    /\ \E f \in DOMAIN mp.folders : mp.folders[f] # f /\ InCycle(mp.folders, f)

----------------------------------------------------------------------------
(* The entity round trip, checked under SpecRound *)

\* the entities written through bulk so far, each with all values written for it
WrittenEntities(r) ==
    {[id |-> e, values |-> {i \in r.written : CanonicalOf(i) = e}] :
        e \in {CanonicalOf(i) : i \in r.written}}

\* the step is a stream() of an export made after the last write
StreamedFresh == rt'.last.kind = "stream" /\ rt'.n = rt.n + 1 /\ rt.fresh

----------------------------------------------------------------------------
(* The place of the statistics, checked under Spec *)

\* the step is a run of the statistics export whose handle ran and returned
StatisticsRan ==
    /\ last'.kind = "op" /\ last'.op = "statistics" /\ last'.n = last.n + 1
    /\ last'.handled = 1 /\ ~last'.exc

\* the paths of the snapshots the step added to the version store
NewSnapshots == {v[1] : v \in versions' \ versions}

\* C33: the statistics export has the target tag exports/statistics.json and
\* writes its output there, and the index export depends on that same tag
C33_StatisticsUnderExports ==
    [][StatisticsRan
          => /\ Target("statistics") = EXPORTS_STATISTICS
             /\ NewSnapshots = {EXPORTS_STATISTICS}
             /\ EXPORTS_STATISTICS \in SeqSet(Deps("index"))]_vars

\* what the code does: target, output and the dependency of the index export
\* are one path, statistics.json at the top of the dataset
C33_StatisticsAtTop ==
    [][StatisticsRan
          => /\ Target("statistics") = STATISTICS
             /\ tags'[STATISTICS] # None /\ tags'[STATISTICS] # tags[STATISTICS]
             /\ files'[STATISTICS] # None /\ files'[STATISTICS] # files[STATISTICS]
             /\ NewSnapshots = {STATISTICS}
             /\ STATISTICS \in SeqSet(Deps("index"))]_vars

----------------------------------------------------------------------------
(* Token authorization, checked under SpecAuth *)

\* match(P, p): fnmatch when p holds * or ?, a literal prefix test otherwise
Match(P, p) ==
    IF \E i \in DOMAIN p : p[i] \in {"*", "?"} THEN Fnmatch(P, p) ELSE StartsWith(P, p)

\* the request (M, P) is permitted by the token
Permitted(token, M, P) ==
    /\ "*" \in token.methods \/ Upper(M) \in token.methods
    /\ \E p \in token.prefixes : Match(P, p)

C34_WitnessRefused ==
    /\ au.n > 0 /\ ~au.ret
    /\ "*" \in au.token.methods
    /\ au.token.prefixes # {}

----------------------------------------------------------------------------
(* Exports and unflushed data, checked under Spec *)

\* the export operations with the dependencies of BaseExportJob
BaseExports == Ops \ {"index"}

\* the journal holds rows, or a bulk write completed after the target tag of
\* operation k was last set
Unflushed(k) ==
    \/ journal # {}
    \/ /\ tags[JOURNAL_UPDATED] # None
       /\ tags[Target(k)] = None \/ tags[JOURNAL_UPDATED] >= tags[Target(k)]

\* the step is a run of operation k without force
RunsUnforced(k) ==
    last'.kind = "op" /\ last'.op = k /\ ~last'.force /\ last'.n = last.n + 1

\* the run entered its handle, and a handle that returned has flushed the
\* journal into the store
HandledAndFlushed ==
    /\ ~last'.skipped
    /\ last'.handled = 1
    /\ ~last'.exc => /\ journal' = {}
                     /\ journal \subseteq store'
                     /\ journal # {} => sver' > sver

\* C35 as stated, for every export operation, the index export included: a run
\* without force is not skipped while there is unflushed data
C35_NeverSkippedUnflushed ==
    [][\A k \in Ops : (RunsUnforced(k) /\ Unflushed(k)) => HandledAndFlushed]_vars

\* C35: a statements, entities, documents or statistics export run without
\* force while the journal holds rows, or after a bulk write that completed
\* after its target tag was set, runs its handle and flushes before exporting
C35_BaseExportsNotSkipped ==
    [][\A k \in BaseExports : (RunsUnforced(k) /\ Unflushed(k)) => HandledAndFlushed]_vars

\* C35, its case: the statistics were exported, rows were written, and a run
\* without force exported them again after flushing the rows
C35_Witness ==
    /\ last.kind = "op" /\ last.op = "statistics" /\ ~last.force
    /\ ~last.skipped /\ ~last.exc /\ last.handled = 1
    /\ last.hf.state = "ok" /\ last.hf.snap # {}
    /\ Cardinality(SnapshotsOf(versions, STATISTICS)) = 2

----------------------------------------------------------------------------
(* What recreate clears and when, checked under SpecRecreate *)

\* the step is a recreate call
RecreateCalled == rc'.last.kind = "recreate" /\ rc'.n = rc.n + 1

\* the statements of the export that the recreate of this step imports
ChosenExport == rc.files[rc'.last.source].rows

\* C36: after a recreate that completes, the store holds only statements of
\* the chosen export and of the archive's crawled files, and no row that was
\* pending in the journal before the recreate
C36_OnlyExportAndCrawl ==
    [][(RecreateCalled /\ ~rc'.last.exc)
          => /\ rc'.store \subseteq ChosenExport \cup rc.crawled
             /\ rc'.store \cap (rc.journal \ (ChosenExport \cup rc.crawled)) = {}]_vars

\* what the code does: the store is destroyed, the journal is not; the
\* rows pending before the recreate are flushed into the new store with the
\* imported ones
C36_PendingRowsSurvive ==
    [][(RecreateCalled /\ ~rc'.last.exc)
          => /\ rc'.store = rc.journal \cup ChosenExport \cup rc.crawled
             /\ rc'.journal = {}]_vars

\* the export file that the recreate of this step needs does not exist
ExportMissing ==
    IF rc'.last.arg = AUTO
    THEN \A p \in RecreateFiles : rc.files[p] = Absent
    ELSE rc.files[rc'.last.arg] = Absent

\* C38: a recreate whose export file is missing, the source chosen
\* automatically or named by the caller, fails and leaves the store as it is
C38_NoDestroyWithoutExport ==
    [][(RecreateCalled /\ ExportMissing)
          => /\ rc'.last.exc
             /\ rc'.store = rc.store]_vars

\* what the code does: with automatic selection a missing export is found
\* before the store is destroyed; a source named by the caller is not looked
\* for, the store is destroyed and the import fails
C38_DestroyedWhenNamed ==
    [][(RecreateCalled /\ ExportMissing)
          => /\ rc'.last.exc
             /\ rc'.last.arg = AUTO => rc'.store = rc.store
             /\ rc'.last.arg # AUTO => rc'.store = {}
             /\ rc'.journal = rc.journal]_vars

----------------------------------------------------------------------------
(* The target tag after an export, checked under Spec *)

\* the last call was a run without force of one of the four exports that ran
\* its handle and returned
ExportCompleted ==
    /\ last.kind = "op" /\ last.op \in BaseExports /\ ~last.force
    /\ last.handled = 1 /\ ~last.exc

\* the target of the last call is newer than all of its dependency tags
TargetIsLatest == TagStore_is_latest(tags, Target(last.op), Deps(last.op))

\* the handle of the last call wrote statements/last_updated
HandleFlushed ==
    tags[STATEMENTS_UPDATED] # None /\ tags[STATEMENTS_UPDATED] > last.entry

\* C37: after a non-forced export that completed, its handle having flushed
\* the journal or not, the target tag is newer than all dependency tags and
\* the same operation run again at once without force is skipped
C37_RepeatedRunSkipped ==
    [][ExportCompleted
          => /\ TargetIsLatest
             /\ RunsUnforced(last.op) => last'.skipped]_vars

\* C37, as the code has it: the target tag is the time the run started, so
\* after a non-forced export that completed the target is newer than all
\* dependency tags, and the same operation run again at once is skipped,
\* exactly when the handle wrote no statements/last_updated; after a run whose
\* handle flushed, the next run is not skipped
C37_SkippedUnlessFlushed ==
    [][ExportCompleted
          => /\ TargetIsLatest <=> ~HandleFlushed
             /\ RunsUnforced(last.op) => (last'.skipped <=> ~HandleFlushed)]_vars

\* C37, its case: rows were written, the statistics export flushed them, and
\* the same export run again at once ran its handle again, without a flush
C37_Witness ==
    /\ ExportCompleted /\ last.op = "statistics"
    /\ last.hf.state = "none" /\ ~HandleFlushed
    /\ store # {} /\ journal = {}
    /\ Cardinality(SnapshotsOf(versions, STATISTICS)) = 2
    /\ tags[JOURNAL_UPDATED] < tags[JOURNAL_FLUSHED]
    /\ \A v \in SnapshotsOf(versions, STATISTICS) : v[2] > tags[JOURNAL_FLUSHED]

\* C37, its case: the run after that one is skipped
C37_WitnessSkipped ==
    /\ last.kind = "op" /\ last.op \in BaseExports /\ ~last.force /\ last.skipped
    /\ store # {}
    /\ tags[STATEMENTS_UPDATED] < tags[Target(last.op)]

----------------------------------------------------------------------------
(* The order of tag writes, checked under Spec *)

\* from one call to the next no tag is unset or set back
TagsGrow == \A k \in TagKeys : tags[k] # None => (tags'[k] # None /\ tags'[k] >= tags[k])

\* C39: the timestamp stored for a tag never decreases, from call to call and
\* from one write to the next within a call, an operation that touches its
\* target while its handle calls versions.make for the same key included
C39_TagsNeverDecrease ==
    [][TagsGrow /\ last'.dec = {}]_vars

\* what the code does: from call to call no timestamp decreases; within a
\* call the tag of statistics.json or index.json is set back when the key is
\* touched in nested scopes, and no other tag ever is
C39_DecreaseWhenNested ==
    [][/\ TagsGrow
       /\ last'.dec \subseteq {STATISTICS, INDEX}
       /\ (last'.kind = "op" /\ last'.op = "statistics" /\ last'.handled = 1 /\ ~last'.exc)
             => last'.dec = {STATISTICS}]_vars

----------------------------------------------------------------------------
(* ParquetStore.get_changes, checked under SpecChangesLive *)

\* the generator is in its loop
ChangesRunning == gc.pc \in {"while", "for"}

\* no change record was yielded twice, and a generator that is exhausted has
\* yielded every change record of the versions start..end
YieldedOnce ==
    /\ gc.twice = {}
    /\ gc.pc = "return" => gc.once = LoadCdf(df, gc.start, gc.end)

\* C40: get_changes(start_version, end_version) terminates for every finite
\* change feed and yields each change record committed in the versions
\* start_version..end_version exactly once
C40_GetChangesTerminates ==
    /\ [](YieldedOnce)
    /\ ChangesRunning ~> (gc.pc = "return")

\* what the code does: every record yielded is one of the versions
\* start..end, the loop is left only by a first batch that is empty or by a
\* reader without batches, and every pass of the body yields a first batch
C40_YieldsFirstBatches ==
    /\ [](gc.twice \subseteq gc.once /\ gc.once \subseteq LoadCdf(df, gc.start, gc.end))
    /\ [][/\ (gc.pc # "return" /\ gc'.pc = "return")
                => (gc.pc = "while" /\ gc'.batch = {} /\ gc'.once = gc.once)
          /\ (gc.pc # "raise" /\ gc'.pc = "raise") => (gc.pc = "while" /\ gc.once = {})
          /\ (gc.pc = "for" /\ gc'.pc = "while") => gc'.once = gc.once \cup gc.batch]_vars

====
